---------------------------- MODULE Spec2Model ----------------------------
(***************************************************************************)
(* A model of the tool-call evaluation engine of tool_eval:                *)
(*   harness/scoring.py  normalize_value, values_match, exact_match_score, *)
(*                       semantic_match_score, tool_selection_score,       *)
(*                       Scorer                                            *)
(*   harness/runner.py   EvalRunner.run_single, EvalRunner.run_tests       *)
(*   harness/metrics.py  CallMetrics, MetricsWriter, MetricsReader         *)
(*   tools/registry.py   resolve_refs, _cleanup_schema, simplify_schema    *)
(*   client.py           estimate_tokens, the thinking-token count of      *)
(*                       LMStudioClient._call_responses_api                *)
(*   agent.py            run_agent                                         *)
(*                                                                         *)
(* JSON-shaped values are tagged records, so that values of different      *)
(* Python types can be compared.  A string is a sequence of characters.    *)
(* A score is an exact rational [num, den]; Python computes the same       *)
(* quotients in binary floating point.  Where the rounding of the sums     *)
(* matters, the scores are computed a second time as binary64 values.      *)
(***************************************************************************)
EXTENDS Integers, Sequences, FiniteSets, TLC

VARIABLES
    pc,         \* which operation has been applied ("start": none yet)
    expected,   \* the expected value / argument object
    actual,     \* the actual value / argument object
    normalized, \* the value returned by normalize_value(expected)
    score,      \* the score returned by values_match / exact_match_score
    test,       \* the TestCase handed to run_single / score_tool
    actualTool, \* the tool name handed to score_tool
    client,     \* the LMStudioClient: how it finds its model
    response,   \* what the server answers to client.call_with_tools
    scorer,     \* the Scorer's configuration (use_semantic, client)
    judge,      \* what client.simple_completion does when called
    verdict,    \* the pair returned by score_tool
    argResult,  \* what score_args does: a returned score or a raised error
    outcome,    \* the CallMetrics returned by run_single
    judgeCalls, \* number of simple_completion calls made so far
    tests,      \* the list of TestCases handed to run_tests
    answers,    \* what the server answers to the model call of each test
    output,     \* whether run_tests is given an output path
    prior,      \* the lines of the log file before run_tests starts
    log,        \* the lines of the JSONL log file
    results,    \* the list of CallMetrics run_tests has collected
    raised,     \* the exception that left run_tests, if any
    summary,    \* the EvalResult of the first MetricsReader.aggregate call
    summary2,   \* the EvalResult of the second MetricsReader.aggregate call
    rootSchema, \* the JSON schema handed to simplify_schema
    strip,      \* simplify_schema's strip_metadata flag
    simplified, \* what simplify_schema does: a returned schema or an error
    reported,   \* the reasoning-token count in the backend's usage, if any
    thinkingParts,  \* the reasoning texts of the backend's output items
    thinkingTokens, \* the thinking_tokens of the ModelResponse
    maxTurns,   \* run_agent's max_turns
    verbose,    \* run_agent's verbose flag
    replies,    \* what the server answers to the agent's model calls
    modelCalls, \* number of call_model calls run_agent has made
    messages,   \* run_agent's message history
    toolCallsLog,   \* run_agent's tool_calls_log
    agentResult,    \* what run_agent does: a returned dict or an error
    keyOrder,   \* the order in which the set all_keys yields its keys
    swappedOrder,   \* that order in the call with the arguments swapped
    floatScore, \* the float returned for (expected, actual)
    swappedScore    \* the float returned for (actual, expected)

vars == <<pc, expected, actual, normalized, score, test, actualTool, client,
          response, scorer, judge, verdict, argResult, outcome, judgeCalls,
          tests, answers, output, prior, log, results, raised, summary,
          summary2, rootSchema, strip, simplified, reported, thinkingParts,
          thinkingTokens, maxTurns, verbose, replies, modelCalls, messages,
          toolCallsLog, agentResult, keyOrder, swappedOrder, floatScore,
          swappedScore>>

scoreVars == <<expected, actual, normalized, score>>
runVars == <<test, actualTool, client, response, scorer, judge, verdict,
             argResult, outcome, judgeCalls>>
batchVars == <<tests, answers, output, prior, log, results, raised>>
readVars == <<summary, summary2>>
schemaVars == <<rootSchema, strip, simplified>>
usageVars == <<reported, thinkingParts, thinkingTokens>>
agentVars == <<maxTurns, verbose, replies, modelCalls, messages,
               toolCallsLog, agentResult>>
floatVars == <<keyOrder, swappedOrder, floatScore, swappedScore>>

(***************************************************************************)
(* JSON-shaped values                                                      *)
(***************************************************************************)
VNull == [t |-> "null"]
VBool(b) == [t |-> "bool", b |-> b]
VNum(n) == [t |-> "num", n |-> n]
VStr(s) == [t |-> "str", s |-> s]
VList(l) == [t |-> "list", l |-> l]
VObj(o) == [t |-> "obj", o |-> o]

EmptyObj == [k \in {} |-> VNull]
Obj1(k, v) == VObj([x \in {k} |-> v])
Obj2(k1, v1, k2, v2) == VObj([x \in {k1, k2} |-> IF x = k1 THEN v1 ELSE v2])

IsNone(v) == v.t = "null"
IsStr(v) == v.t = "str"
IsList(v) == v.t = "list"
IsDict(v) == v.t = "obj"

\* dict.get(key): the value, or None for a missing key
Get(d, key) == IF key \in DOMAIN d.o THEN d.o[key] ELSE VNull

\* truthiness of a dict: "not d" is true for the empty dict
Falsy(d) == DOMAIN d.o = {}

(***************************************************************************)
(* Scores: exact rationals in lowest terms                                 *)
(***************************************************************************)
RECURSIVE GCD(_, _)
GCD(a, b) == IF b = 0 THEN a ELSE GCD(b, a % b)

Abs(n) == IF n < 0 THEN -n ELSE n

Rat(n, d) ==
    LET g == GCD(Abs(n), d)
    IN  [num |-> n \div g, den |-> d \div g]

RAdd(x, y) == Rat(x.num * y.den + y.num * x.den, x.den * y.den)
RDiv(x, k) == Rat(x.num, x.den * k)
RLeq(x, y) == x.num * y.den <= y.num * x.den

R0 == Rat(0, 1)
R1 == Rat(1, 1)

Max(a, b) == IF a >= b THEN a ELSE b
Min(a, b) == IF a <= b THEN a ELSE b

(***************************************************************************)
(* normalize_value                                                         *)
(***************************************************************************)
\* str.count(":")
RECURSIVE CountColons(_)
CountColons(s) ==
    IF s = <<>> THEN 0
    ELSE (IF Head(s) = ":" THEN 1 ELSE 0) + CountColons(Tail(s))

\* The bug "truncate to seconds": val[:19] instead of val[:16].
NormalizeValueSeconds(val) ==
    IF IsStr(val) /\ Len(val.s) >= 16 /\ val.s[11] = "T"
                  /\ CountColons(val.s) >= 2
    THEN VStr(SubSeq(val.s, 1, Min(19, Len(val.s))))
    ELSE val

NormalizeValue(val) ==
    IF IsNone(val) THEN VNull
    ELSE IF IsStr(val)
         THEN IF Len(val.s) >= 16 /\ val.s[11] = "T" /\ CountColons(val.s) >= 2
              THEN VStr(SubSeq(val.s, 1, 16))
              ELSE val
         ELSE val

(***************************************************************************)
(* values_match and exact_match_score                                      *)
(***************************************************************************)
\* Python's == on two non-None values that are not both dicts or both
\* lists: bool is a subtype of int (True == 1), other types never mix.
NumOf(v) == IF v.t = "bool" THEN (IF v.b THEN 1 ELSE 0) ELSE v.n
PyEq(x, y) ==
    IF x.t \in {"bool", "num"} /\ y.t \in {"bool", "num"}
    THEN NumOf(x) = NumOf(y)
    ELSE x = y

RECURSIVE ValuesMatch(_, _)
RECURSIVE ExactMatchScore(_, _)
RECURSIVE PrefixSum(_, _, _)
RECURSIVE KeySum(_, _, _)

\* total_score over range(n): values_match(expected[i], actual[i])
PrefixSum(e, a, n) ==
    IF n = 0 THEN R0
    ELSE RAdd(PrefixSum(e, a, n - 1), ValuesMatch(e[n], a[n]))

\* The bug "divide by the shorter length".
ListScoreShorter(e, a) ==
    IF Len(e) = 0 /\ Len(a) = 0 THEN R1
    ELSE IF Min(Len(e), Len(a)) = 0 THEN R0
    ELSE RDiv(PrefixSum(e, a, Min(Len(e), Len(a))), Min(Len(e), Len(a)))

\* The list branch of values_match, on the two element sequences.
ListScore(e, a) ==
    IF Len(e) = 0 /\ Len(a) = 0 THEN R1
    ELSE IF Len(e) # Len(a)
         THEN LET max_len == Max(Len(e), Len(a))
                  min_len == Min(Len(e), Len(a))
              IN  IF min_len = 0 THEN R0
                  ELSE RDiv(PrefixSum(e, a, min_len), max_len)
         ELSE RDiv(PrefixSum(e, a, Len(e)), Len(e))

\* The bug "None never matches": the both-None test is lost.
ValuesMatchNoneMismatch(expected_, actual_) ==
    LET e == NormalizeValue(expected_)
        a == NormalizeValue(actual_)
    IN  IF IsNone(e) \/ IsNone(a) THEN R0
        ELSE IF IsDict(e) /\ IsDict(a) THEN ExactMatchScore(e, a)
        ELSE IF IsList(e) /\ IsList(a) THEN ListScore(e.l, a.l)
        ELSE IF PyEq(e, a) THEN R1 ELSE R0

ValuesMatch(expected_, actual_) ==
    LET e == NormalizeValue(expected_)
        a == NormalizeValue(actual_)
    IN  IF IsNone(e) /\ IsNone(a) THEN R1
        ELSE IF IsNone(e) \/ IsNone(a) THEN R0
        ELSE IF IsDict(e) /\ IsDict(a) THEN ExactMatchScore(e, a)
        ELSE IF IsList(e) /\ IsList(a) THEN ListScore(e.l, a.l)
        ELSE IF PyEq(e, a) THEN R1 ELSE R0

\* The bug "extra fields are ignored": a key absent from expected scores 1.
KeyScoreExtraIgnored(e, a, key) ==
    IF key \notin DOMAIN a.o /\ IsNone(Get(e, key)) THEN R1
    ELSE IF key \notin DOMAIN e.o THEN R1
    ELSE ValuesMatch(Get(e, key), Get(a, key))

\* One iteration of the loop over all_keys: the score added for `key`.
KeyScore(e, a, key) ==
    LET exp_val == Get(e, key)
        act_val == Get(a, key)
    IN  IF key \notin DOMAIN a.o /\ IsNone(exp_val) THEN R1
        ELSE IF key \notin DOMAIN e.o /\ ~IsNone(act_val) THEN R0
        ELSE ValuesMatch(exp_val, act_val)

\* total_score over the keys of `keys`
KeySum(e, a, keys) ==
    IF keys = {} THEN R0
    ELSE LET k == CHOOSE x \in keys : TRUE
         IN  RAdd(KeySum(e, a, keys \ {k}), KeyScore(e, a, k))

\* The bug "divide by the number of expected keys".
ExactMatchScoreExpectedKeys(e, a) ==
    IF Falsy(e) /\ Falsy(a) THEN R1
    ELSE IF Falsy(e) \/ Falsy(a) THEN R0
    ELSE RDiv(KeySum(e, a, DOMAIN e.o \cup DOMAIN a.o), Cardinality(DOMAIN e.o))

ExactMatchScore(e, a) ==
    IF Falsy(e) /\ Falsy(a) THEN R1
    ELSE IF Falsy(e) \/ Falsy(a) THEN R0
    ELSE LET all_keys == DOMAIN e.o \cup DOMAIN a.o
         IN  IF all_keys = {} THEN R1
             ELSE RDiv(KeySum(e, a, all_keys), Cardinality(all_keys))


(***************************************************************************)
(* The inputs of the scoring operations                                    *)
(***************************************************************************)
MaxLen == 2

Keys == {"a", "b"}

DateA == <<"2", "0", "2", "4", "-", "0", "1", "-", "0", "1">>
DateB == <<"2", "0", "2", "4", "-", "0", "1", "-", "0", "2">>
HM30 == <<"1", "0", ":", "3", "0">>
HM31 == <<"1", "0", ":", "3", "1">>
Sec00 == <<":", "0", "0">>
Sec45 == <<":", "4", "5">>

TS_1030_00 == VStr(DateA \o <<"T">> \o HM30 \o Sec00)
TS_1030_45 == VStr(DateA \o <<"T">> \o HM30 \o Sec45)
TS_1031_00 == VStr(DateA \o <<"T">> \o HM31 \o Sec00)
TS_1030 == VStr(DateA \o <<"T">> \o HM30)

Strings ==
    { VStr(<<"S", "F">>),
      VStr(<<>>),
      TS_1030_00, TS_1030_45, TS_1031_00, TS_1030,
      VStr(DateB \o <<"T">> \o HM30 \o Sec00),
      \* a blank instead of the separator
      VStr(DateA \o <<" ">> \o HM30 \o Sec00),
      \* long enough, separator in place, no colon
      VStr(DateA \o <<"T", "1", "0", "3", "0", "0", "0", "Z">>),
      \* two colons, the second one in the zone offset
      VStr(DateA \o <<"T">> \o HM30 \o <<"+", "0", "0">> \o Sec00),
      \* two colons, too short
      VStr(HM30 \o Sec00),
      \* two colons, 15 characters
      VStr(DateA \o <<"T", "1", ":", "3", ":">>) }

Scalars == {VNull, VBool(TRUE), VNum(1), VNum(2)}

ListElems == {VNull, VNum(1), VList(<<VNum(1)>>), VList(<<VNum(1), VNum(2)>>)}

ListsUpTo(n) == UNION {[1..k -> ListElems] : k \in 0..n}

ExampleLists ==
    { <<VNum(1), VNum(2), VNum(3)>>,
      <<VNum(1), VNum(2), VNum(4)>>,
      <<VNum(1), VNum(2)>>,
      <<TS_1030_00, VNum(1)>>,
      <<TS_1030_45, VNum(1)>> }

Lists == {VList(l) : l \in ListsUpTo(MaxLen) \cup ExampleLists}

ObjVals ==
    { VNull, VNum(1), VNum(2), VList(<<>>), VList(<<VNum(1)>>),
      Obj1("a", VNum(1)), TS_1030_00, TS_1030_45 }

Objects == {VObj(o) : o \in UNION {[ks -> ObjVals] : ks \in SUBSET Keys}}

Values == Scalars \cup Strings \cup Lists \cup Objects

(***************************************************************************)
(* The scoring operations, each applied once to the chosen inputs          *)
(***************************************************************************)
CallNormalizeValue ==
    /\ pc = "start"
    /\ normalized' = NormalizeValue(expected)
    /\ pc' = "normalize_value"
    /\ UNCHANGED <<expected, actual, score>>
    /\ UNCHANGED runVars
    /\ UNCHANGED <<batchVars, readVars, schemaVars, usageVars, agentVars, floatVars>>

CallValuesMatch ==
    /\ pc = "start"
    /\ score' = ValuesMatch(expected, actual)
    /\ pc' = "values_match"
    /\ UNCHANGED <<expected, actual, normalized>>
    /\ UNCHANGED runVars
    /\ UNCHANGED <<batchVars, readVars, schemaVars, usageVars, agentVars, floatVars>>

\* exact_match_score takes two dicts
CallExactMatchScore ==
    /\ pc = "start"
    /\ IsDict(expected) /\ IsDict(actual)
    /\ score' = ExactMatchScore(expected, actual)
    /\ pc' = "exact_match_score"
    /\ UNCHANGED <<expected, actual, normalized>>
    /\ UNCHANGED runVars
    /\ UNCHANGED <<batchVars, readVars, schemaVars, usageVars, agentVars, floatVars>>


(***************************************************************************)
(* Optional values: None is the empty tuple, a present value x is <<x>>    *)
(***************************************************************************)
None == <<>>
Some(x) == <<x>>
IsSome(x) == x # <<>>
The(x) == x[1]

\* What a call does: it returns a value or raises an exception.
Return(v) == [kind |-> "return", value |-> v]
Raise(exc) == [kind |-> "raise", exc |-> exc]

(***************************************************************************)
(* tool_selection_score and Scorer.score_tool                              *)
(***************************************************************************)
\* x in list
InList(x, list) == \E i \in 1..Len(list) : list[i] = x

\* The bug "alternatives are not consulted".
ToolSelectionScoreNoAlternatives(expected_tools, actual_tool, acceptable_tools) ==
    IF ~IsSome(actual_tool) \/ actual_tool = Some("")
    THEN <<FALSE, <<"No tool called">>>>
    ELSE IF InList(The(actual_tool), expected_tools)
         THEN <<TRUE, <<"Exact match">>>>
         ELSE <<FALSE, <<"Expected ">> \o expected_tools
                        \o <<", got ", The(actual_tool)>>>>

\* The reason is the sequence of the pieces of the formatted string.
ToolSelectionScore(expected_tools, actual_tool, acceptable_tools) ==
    IF ~IsSome(actual_tool) \/ actual_tool = Some("")
    THEN <<FALSE, <<"No tool called">>>>
    ELSE IF InList(The(actual_tool), expected_tools)
         THEN <<TRUE, <<"Exact match">>>>
         ELSE IF /\ IsSome(acceptable_tools)
                 /\ The(acceptable_tools) # <<>>
                 /\ InList(The(actual_tool), The(acceptable_tools))
              THEN <<TRUE, <<"Acceptable alternative: ", The(actual_tool)>>>>
              ELSE <<FALSE, <<"Expected ">> \o expected_tools
                             \o <<", got ", The(actual_tool)>>>>

ScoreTool(expected_tool, actual_tool, acceptable_tools) ==
    ToolSelectionScore(<<expected_tool>>, actual_tool, acceptable_tools)

(***************************************************************************)
(* The judge: client.simple_completion and the text it returns.  A reply   *)
(* is a sequence of tokens: a code fence, the word json, white space,      *)
(* a JSON document (with the value it denotes) or other text.              *)
(***************************************************************************)
TFence == [k |-> "fence"]
TWord == [k |-> "json_word"]
TSpace == [k |-> "space"]
TText == [k |-> "text"]
TJson(v) == [k |-> "json", v |-> v]

\* a number with a fraction, as a judge writes it: n/d
VFrac(n, d) == [t |-> "frac", n |-> n, d |-> d]

\* str.strip()
RECURSIVE LStrip(_)
LStrip(toks) ==
    IF toks # <<>> /\ Head(toks) = TSpace THEN LStrip(Tail(toks)) ELSE toks
RECURSIVE RStrip(_)
RStrip(toks) ==
    IF toks # <<>> /\ toks[Len(toks)] = TSpace
    THEN RStrip(SubSeq(toks, 1, Len(toks) - 1))
    ELSE toks
Strip(toks) == RStrip(LStrip(toks))

\* the text up to the first fence
RECURSIVE UpToFence(_)
UpToFence(toks) ==
    IF toks = <<>> \/ Head(toks) = TFence THEN <<>>
    ELSE <<Head(toks)>> \o UpToFence(Tail(toks))

\* response.split("```")[1], for a response that starts with a fence
SplitSecond(toks) == UpToFence(Tail(toks))

\* lines 154-159: strip, drop the code fence and the word json, strip
Unfence(reply) ==
    LET r1 == Strip(reply)
        r2 == IF r1 # <<>> /\ Head(r1) = TFence
              THEN LET part == SplitSecond(r1)
                   IN  IF part # <<>> /\ Head(part) = TWord
                       THEN Tail(part) ELSE part
              ELSE r1
    IN  Strip(r2)

\* json.loads: the value of a text that is exactly one JSON document
JsonLoads(toks) ==
    IF Len(toks) = 1 /\ toks[1].k = "json"
    THEN Return(toks[1].v)
    ELSE Raise("JSONDecodeError")

\* float() of a string of digits with at most one decimal point
DigitChars == <<"0", "1", "2", "3", "4", "5", "6", "7", "8", "9">>
IsDigit(c) == \E i \in 1..10 : DigitChars[i] = c
DigitVal(c) == (CHOOSE i \in 1..10 : DigitChars[i] = c) - 1
RECURSIVE DigitsValue(_, _)
DigitsValue(s, acc) ==
    IF s = <<>> THEN acc
    ELSE IF Head(s) = "." THEN DigitsValue(Tail(s), acc)
    ELSE DigitsValue(Tail(s), 10 * acc + DigitVal(Head(s)))
RECURSIVE Pow10(_)
Pow10(n) == IF n = 0 THEN 1 ELSE 10 * Pow10(n - 1)
DotAt(s) == IF \E i \in 1..Len(s) : s[i] = "."
            THEN CHOOSE i \in 1..Len(s) : s[i] = "." ELSE Len(s)
IsNumeric(s) ==
    /\ \A i \in 1..Len(s) : IsDigit(s[i]) \/ s[i] = "."
    /\ Cardinality({i \in 1..Len(s) : s[i] = "."}) <= 1
    /\ \E i \in 1..Len(s) : IsDigit(s[i])

\* float(x)
Float(x) ==
    CASE x.t = "num" -> Return(Rat(x.n, 1))
      [] x.t = "frac" -> Return(Rat(x.n, x.d))
      [] x.t = "bool" -> Return(Rat(NumOf(x), 1))
      [] x.t = "str" ->
            IF IsNumeric(x.s)
            THEN Return(Rat(DigitsValue(x.s, 0), Pow10(Len(x.s) - DotAt(x.s))))
            ELSE Raise("ValueError")
      [] OTHER -> Raise("TypeError")

\* client.simple_completion: no model, a failing request, or the content
\* of the first choice ("" when it has none)
SimpleCompletion(j) ==
    IF j.kind = "no_model" THEN Raise("RuntimeError")
    ELSE IF j.kind = "api_error" THEN Raise("APIConnectionError")
    ELSE Return(IF IsSome(j.content) THEN The(j.content) ELSE <<>>)


(***************************************************************************)
(* semantic_match_score and Scorer.score_args                              *)
(***************************************************************************)
\* bool(v) of a JSON-shaped value
Truthy(v) ==
    CASE v.t = "null" -> FALSE
      [] v.t = "bool" -> v.b
      [] v.t = "num" -> v.n # 0
      [] v.t = "frac" -> v.n # 0
      [] v.t = "str" -> v.s # <<>>
      [] v.t = "list" -> v.l # <<>>
      [] v.t = "obj" -> DOMAIN v.o # {}

\* exact_match_score called with a dict and any decoded value: a value
\* without keys() raises once line 84 is reached
ExactMatchCall(e, a) ==
    IF ~Truthy(e) /\ ~Truthy(a) THEN Return(R1)
    ELSE IF ~Truthy(e) \/ ~Truthy(a) THEN Return(R0)
    ELSE IF IsDict(a) THEN Return(ExactMatchScore(e, a))
    ELSE Raise("AttributeError")

\* lines 161-162: json.loads, result.get("score", 0), float
ParseJudgeScore(text) ==
    LET result == JsonLoads(text)
    IN  IF result.kind = "raise" THEN result
        ELSE IF ~IsDict(result.value) THEN Raise("AttributeError")
        ELSE Float(IF "score" \in DOMAIN result.value.o
                   THEN result.value.o["score"] ELSE VNum(0))

\* the exceptions of the except clause of line 164
Caught(exc) == exc \in {"JSONDecodeError", "KeyError", "ValueError"}

\* has_client: a client was passed.  The parsed score is returned as it is.
SemanticMatchScore(e, a, has_client, j) ==
    IF ~has_client THEN ExactMatchCall(e, a)
    ELSE IF ~Truthy(e) /\ ~Truthy(a) THEN Return(R1)
    ELSE IF ~Truthy(e) \/ ~Truthy(a) THEN Return(R0)
    ELSE LET reply == SimpleCompletion(j)
         IN  IF reply.kind = "raise"
             THEN (IF Caught(reply.exc) THEN ExactMatchCall(e, a) ELSE reply)
             ELSE LET parsed == ParseJudgeScore(Unfence(reply.value))
                  IN  IF parsed.kind = "raise" /\ Caught(parsed.exc)
                      THEN ExactMatchCall(e, a)
                      ELSE parsed

\* number of simple_completion calls semantic_match_score makes
SemanticJudgeCalls(e, a, has_client) ==
    IF has_client /\ Truthy(e) /\ Truthy(a) THEN 1 ELSE 0

\* Scorer.score_args
ScoreArgs(sc, e, a, j) ==
    IF sc.use_semantic /\ sc.client
    THEN SemanticMatchScore(e, a, sc.client, j)
    ELSE ExactMatchCall(e, a)

ScoreArgsJudgeCalls(sc, e, a) ==
    IF sc.use_semantic /\ sc.client
    THEN SemanticJudgeCalls(e, a, sc.client)
    ELSE 0

(***************************************************************************)
(* LMStudioClient.get_current_model / call_with_tools                      *)
(***************************************************************************)
GetCurrentModel(c) ==
    CASE c.model = "configured" -> Return(Some("model-a"))
      [] c.model = "listed" -> Return(Some("model-b"))
      [] c.model = "none" -> Return(None)
      [] c.model = "error" -> Raise("APIConnectionError")

\* resp: what the request to the server does once a model is known
CallWithTools(c, resp) ==
    LET model == GetCurrentModel(c)
    IN  IF model.kind = "raise" THEN model
        ELSE IF ~IsSome(model.value) THEN Raise("No model available")
        ELSE resp

(***************************************************************************)
(* EvalRunner.run_single                                                   *)
(***************************************************************************)
\* lines 119-132: the name and the decoded arguments of the first call
ActualTool(tool_call) == tool_call.name

\* The bug "only the dict wire shape recovers from invalid JSON".
DecodeArgsObjectRaises(tool_call) ==
    IF tool_call.wire = "dict"
    THEN CASE tool_call.args.kind = "json" -> Return(Some(tool_call.args.v))
           [] tool_call.args.kind = "invalid" -> Return(Some(VObj(EmptyObj)))
           [] tool_call.args.kind = "missing" -> Return(Some(VObj(EmptyObj)))
           [] tool_call.args.kind = "nonstr" -> Return(Some(tool_call.args.v))
    ELSE CASE tool_call.args.kind = "json" -> Return(Some(tool_call.args.v))
           [] tool_call.args.kind = "invalid" -> Raise("JSONDecodeError")
           [] OTHER -> Raise("TypeError")

DecodeArgs(tool_call) ==
    IF tool_call.wire = "dict"
    THEN CASE tool_call.args.kind = "json" -> Return(Some(tool_call.args.v))
           [] tool_call.args.kind = "invalid" -> Return(Some(VObj(EmptyObj)))
           [] tool_call.args.kind = "missing" -> Return(Some(VObj(EmptyObj)))
           [] tool_call.args.kind = "nonstr" -> Return(Some(tool_call.args.v))
    ELSE CASE tool_call.args.kind = "json" -> Return(Some(tool_call.args.v))
           [] tool_call.args.kind = "invalid" -> Return(Some(VObj(EmptyObj)))
           [] OTHER -> Raise("TypeError")

\* a decoded JSON null is Python's None
ArgsOrNone(decoded) ==
    IF IsSome(decoded) /\ IsNone(The(decoded)) THEN None ELSE decoded

\* the CallMetrics of the except branch (lines 167-187)
FailedMetrics(t, c, exc) ==
    LET model == GetCurrentModel(c)
    IN  IF model.kind = "raise" THEN model
        ELSE Return([test_id |-> t.id, tier |-> t.tier,
                     success |-> FALSE, correct_tool |-> FALSE,
                     correct_args |-> R0, retries |-> 0,
                     input_tokens |-> 0, output_tokens |-> 0,
                     thinking_tokens |-> 0, latency_ms |-> 0,
                     expected_tool |-> t.expected_tool,
                     expected_args |-> t.expected_args,
                     actual_tool |-> None, actual_args |-> None,
                     error |-> Some(exc), model |-> model.value])

\* The bug "an outcome of the try branch is always a success".
ScoredMetricsAlwaysSuccess(t, c, r, actual_tool, actual_args, correct_tool, correct_args) ==
    LET model == GetCurrentModel(c)
    IN  IF model.kind = "raise" THEN FailedMetrics(t, c, model.exc)
        ELSE Return([test_id |-> t.id, tier |-> t.tier,
                     success |-> TRUE,
                     correct_tool |-> correct_tool,
                     correct_args |-> correct_args, retries |-> r.retries,
                     input_tokens |-> r.input_tokens,
                     output_tokens |-> r.output_tokens,
                     thinking_tokens |-> r.thinking_tokens,
                     latency_ms |-> r.latency_ms,
                     expected_tool |-> t.expected_tool,
                     expected_args |-> t.expected_args,
                     actual_tool |-> actual_tool, actual_args |-> actual_args,
                     error |-> None, model |-> model.value])

\* the CallMetrics of the try branch (lines 145-165)
ScoredMetrics(t, c, r, actual_tool, actual_args, correct_tool, correct_args) ==
    LET model == GetCurrentModel(c)
    IN  IF model.kind = "raise" THEN FailedMetrics(t, c, model.exc)
        ELSE Return([test_id |-> t.id, tier |-> t.tier,
                     success |-> IsSome(actual_tool),
                     correct_tool |-> correct_tool,
                     correct_args |-> correct_args, retries |-> r.retries,
                     input_tokens |-> r.input_tokens,
                     output_tokens |-> r.output_tokens,
                     thinking_tokens |-> r.thinking_tokens,
                     latency_ms |-> r.latency_ms,
                     expected_tool |-> t.expected_tool,
                     expected_args |-> t.expected_args,
                     actual_tool |-> actual_tool, actual_args |-> actual_args,
                     error |-> None, model |-> model.value])

\* The bug "arguments are scored whatever the tool verdict".
RunSingleAlwaysScores(t, c, resp, sc, j) ==
    LET call == CallWithTools(c, resp)
    IN  IF call.kind = "raise"
        THEN [out |-> FailedMetrics(t, c, call.exc), judge_calls |-> 0]
        ELSE
        LET r == call.value
            has_call == r.result # <<>>
            actual_tool == IF has_call THEN ActualTool(r.result[1]) ELSE None
            decoded == IF has_call THEN DecodeArgs(r.result[1]) ELSE Return(None)
        IN  IF decoded.kind = "raise"
            THEN [out |-> FailedMetrics(t, c, decoded.exc), judge_calls |-> 0]
            ELSE
            LET actual_args == ArgsOrNone(decoded.value)
                v == ScoreTool(t.expected_tool, actual_tool, t.acceptable_tools)
                scoring == IsSome(actual_args) /\ Truthy(The(actual_args))
                scored == IF scoring
                          THEN ScoreArgs(sc, t.expected_args, The(actual_args), j)
                          ELSE Return(R0)
                calls == IF scoring
                         THEN ScoreArgsJudgeCalls(sc, t.expected_args,
                                                  The(actual_args))
                         ELSE 0
            IN  [out |-> IF scored.kind = "raise"
                         THEN FailedMetrics(t, c, scored.exc)
                         ELSE ScoredMetrics(t, c, r, actual_tool, actual_args,
                                            v[1], scored.value),
                 judge_calls |-> calls]

\* run_single.  out: the returned CallMetrics, or the exception that
\* leaves run_single; judge_calls: the simple_completion calls it made.
RunSingle(t, c, resp, sc, j) ==
    LET call == CallWithTools(c, resp)
    IN  IF call.kind = "raise"
        THEN [out |-> FailedMetrics(t, c, call.exc), judge_calls |-> 0]
        ELSE
        LET r == call.value
            has_call == r.result # <<>>
            actual_tool == IF has_call THEN ActualTool(r.result[1]) ELSE None
            decoded == IF has_call THEN DecodeArgs(r.result[1]) ELSE Return(None)
        IN  IF decoded.kind = "raise"
            THEN [out |-> FailedMetrics(t, c, decoded.exc), judge_calls |-> 0]
            ELSE
            LET actual_args == ArgsOrNone(decoded.value)
                v == ScoreTool(t.expected_tool, actual_tool, t.acceptable_tools)
                scoring == v[1] /\ IsSome(actual_args) /\ Truthy(The(actual_args))
                scored == IF scoring
                          THEN ScoreArgs(sc, t.expected_args, The(actual_args), j)
                          ELSE Return(R0)
                calls == IF scoring
                         THEN ScoreArgsJudgeCalls(sc, t.expected_args,
                                                  The(actual_args))
                         ELSE 0
            IN  [out |-> IF scored.kind = "raise"
                         THEN FailedMetrics(t, c, scored.exc)
                         ELSE ScoredMetrics(t, c, r, actual_tool, actual_args,
                                            v[1], scored.value),
                 judge_calls |-> calls]

(***************************************************************************)
(* The inputs of run_single, score_tool and score_args                     *)
(***************************************************************************)
ToolNames == {"get_weather", "get_forecast", "search"}

AcceptableLists ==
    { None, Some(<<>>), Some(<<"get_forecast">>),
      Some(<<"get_weather", "get_forecast">>) }

ExpectedArgs ==
    { VObj(EmptyObj), Obj1("a", VNum(1)), Obj1("a", VNull),
      Obj2("a", VNum(1), "b", VNum(2)) }

Tests ==
    { [id |-> "t1", tier |-> 1, expected_tool |-> "get_weather",
       expected_args |-> e, acceptable_tools |-> acc] :
      e \in ExpectedArgs, acc \in AcceptableLists }

ArgPayloads ==
    { [kind |-> "json", v |-> v] :
        v \in { VObj(EmptyObj), Obj1("a", VNum(1)), Obj1("a", VNum(2)),
                Obj2("a", VNum(1), "b", VNum(2)), VNull,
                VList(<<VNum(1)>>) } }
    \cup {[kind |-> "invalid"], [kind |-> "missing"]}
    \cup {[kind |-> "nonstr", v |-> v] : v \in {Obj1("a", VNum(1)), VNull}}

ToolCalls ==
    { [wire |-> "dict", name |-> n, args |-> p] :
        n \in {None, Some(""), Some("get_weather"), Some("get_forecast"),
               Some("search")},
        p \in ArgPayloads }
    \cup
    { [wire |-> "object", name |-> n, args |-> p] :
        n \in {Some("get_weather"), Some("get_forecast"), Some("search")},
        p \in {q \in ArgPayloads : q.kind # "missing"} }

SecondCall ==
    [wire |-> "dict", name |-> Some("get_weather"),
     args |-> [kind |-> "json", v |-> Obj1("a", VNum(1))]]

ModelResponse(calls) ==
    [result |-> calls, input_tokens |-> 120, output_tokens |-> 30,
     thinking_tokens |-> 8, latency_ms |-> 450, retries |-> 0]

Responses ==
    { Raise("ReadTimeout"), Return(ModelResponse(<<>>)) }
    \cup {Return(ModelResponse(<<tc>>)) : tc \in ToolCalls}
    \cup {Return(ModelResponse(<<tc, SecondCall>>)) :
            tc \in {x \in ToolCalls : x.wire = "dict" /\ x.args.kind = "invalid"}}

Clients == {[model |-> m] : m \in {"configured", "listed", "none", "error"}}

Scorers == [use_semantic : BOOLEAN, client : BOOLEAN]

JudgeScores ==
    { VNum(0), VNum(1), VFrac(1, 2), VFrac(3, 2), VFrac(-1, 2), VNum(2),
      VStr(<<"0", ".", "5">>), VStr(<<"h", "i", "g", "h">>), VBool(TRUE),
      VNull, VList(<<VNum(1)>>) }

JudgeDocs ==
    {Obj2("score", sc, "reasoning", VStr(<<"o", "k">>)) : sc \in JudgeScores}
    \cup { Obj1("reasoning", VStr(<<"o", "k">>)), VList(<<VNum(1)>>),
           VFrac(1, 2), VStr(<<"o", "k">>), VNull }

GoodDoc == Obj2("score", VFrac(1, 2), "reasoning", VStr(<<"o", "k">>))
HighDoc == Obj2("score", VFrac(3, 2), "reasoning", VStr(<<"o", "k">>))

JudgeReplies ==
    {<<TJson(d)>> : d \in JudgeDocs}
    \cup { <<>>, <<TText>>, <<TText, TJson(GoodDoc)>>,
           <<TSpace, TJson(GoodDoc), TSpace>>,
           <<TFence, TWord, TSpace, TJson(GoodDoc), TSpace, TFence>>,
           <<TFence, TWord, TSpace, TJson(HighDoc), TSpace, TFence>>,
           <<TFence, TSpace, TJson(GoodDoc), TSpace, TFence, TSpace>>,
           <<TFence, TWord, TSpace, TJson(GoodDoc)>>,
           <<TFence, TWord, TSpace, TText, TFence>>,
           <<TFence>> }

Judges ==
    { [kind |-> "no_model"], [kind |-> "api_error"],
      [kind |-> "reply", content |-> None] }
    \cup {[kind |-> "reply", content |-> Some(r)] : r \in JudgeReplies}

\* the judge is looked at only by a semantic scorer that has a client
NoJudge == [kind |-> "no_model"]


RunJudges ==
    { [kind |-> "no_model"], [kind |-> "api_error"],
      [kind |-> "reply", content |-> Some(<<TJson(GoodDoc)>>)],
      [kind |-> "reply",
       content |-> Some(<<TFence, TWord, TSpace, TJson(HighDoc), TSpace, TFence>>)],
      [kind |-> "reply", content |-> Some(<<TText>>)],
      [kind |-> "reply", content |-> Some(<<TJson(VList(<<VNum(1)>>))>>)] }

ActualArgs ==
    { VObj(EmptyObj), Obj1("a", VNum(1)), Obj1("a", VNum(2)),
      Obj2("a", VNum(1), "b", VNum(2)), Obj1("b", VNull) }

ActualTools ==
    {None, Some(""), Some("get_weather"), Some("get_forecast"), Some("search")}

\* values of the variables an operation does not use
IdleTest == [id |-> "t1", tier |-> 1, expected_tool |-> "get_weather",
             expected_args |-> VObj(EmptyObj), acceptable_tools |-> None]
IdleClient == [model |-> "configured"]
IdleScorer == [use_semantic |-> FALSE, client |-> FALSE]
NoVerdict == <<FALSE, <<>>>>
NoResult == [kind |-> "none"]

\* values of the variables of run_tests, of the log reader and of the
\* schema normalizer while another operation is looked at
IdleBatch ==
    /\ tests = <<>>
    /\ answers = <<>>
    /\ output = FALSE
    /\ prior = <<>>
    /\ log = <<>>
    /\ results = <<>>
    /\ raised = None

IdleRead ==
    /\ summary = NoResult
    /\ summary2 = NoResult

IdleSchema ==
    /\ rootSchema = VNull
    /\ strip = FALSE
    /\ simplified = NoResult

IdleUsage ==
    /\ reported = None
    /\ thinkingParts = <<>>
    /\ thinkingTokens = 0

IdleAgent ==
    /\ maxTurns = 0
    /\ verbose = FALSE
    /\ replies = <<>>
    /\ modelCalls = 0
    /\ messages = <<>>
    /\ toolCallsLog = <<>>
    /\ agentResult = NoResult

IdleFloat ==
    /\ keyOrder = <<>>
    /\ swappedOrder = <<>>
    /\ floatScore = NoResult
    /\ swappedScore = NoResult

(***************************************************************************)
(* Initial states                                                          *)
(***************************************************************************)
\* the scoring functions on a pair of values
Init ==
    /\ pc = "start"
    /\ expected \in Values
    /\ actual \in Values
    /\ normalized = VNull
    /\ score = R0
    /\ test = IdleTest
    /\ actualTool = None
    /\ client = IdleClient
    /\ response = Raise("ReadTimeout")
    /\ scorer = IdleScorer
    /\ judge = NoJudge
    /\ verdict = NoVerdict
    /\ argResult = NoResult
    /\ outcome = NoResult
    /\ judgeCalls = 0
    /\ IdleBatch /\ IdleRead /\ IdleSchema
    /\ IdleUsage /\ IdleAgent /\ IdleFloat

\* a Scorer, a test and the call of a model
InitArgs ==
    /\ pc = "start"
    /\ expected = VNull
    /\ actual \in ActualArgs
    /\ normalized = VNull
    /\ score = R0
    /\ test \in Tests
    /\ actualTool \in ActualTools
    /\ client = IdleClient
    /\ response = Raise("ReadTimeout")
    /\ scorer \in Scorers
    /\ judge \in Judges
    /\ (scorer.use_semantic /\ scorer.client) \/ judge = NoJudge
    /\ verdict = NoVerdict
    /\ argResult = NoResult
    /\ outcome = NoResult
    /\ judgeCalls = 0
    /\ IdleBatch /\ IdleRead /\ IdleSchema
    /\ IdleUsage /\ IdleAgent /\ IdleFloat

\* an EvalRunner, a test and what the server and the judge will do
InitRun ==
    /\ pc = "start"
    /\ expected = VNull
    /\ actual = VNull
    /\ normalized = VNull
    /\ score = R0
    /\ test \in Tests
    /\ actualTool = None
    /\ client \in Clients
    /\ response \in Responses
    /\ client.model \in {"none", "error"} => response = Raise("ReadTimeout")
    /\ scorer \in Scorers
    /\ judge \in RunJudges
    /\ (scorer.use_semantic /\ scorer.client) \/ judge = NoJudge
    /\ client.model # "configured" => scorer = IdleScorer
    /\ verdict = NoVerdict
    /\ argResult = NoResult
    /\ outcome = NoResult
    /\ judgeCalls = 0
    /\ IdleBatch /\ IdleRead /\ IdleSchema
    /\ IdleUsage /\ IdleAgent /\ IdleFloat

(***************************************************************************)
(* Scorer.score_tool, Scorer.score_args and run_single, each applied once  *)
(***************************************************************************)
CallScoreTool ==
    /\ pc = "start"
    /\ verdict' = ScoreTool(test.expected_tool, actualTool, test.acceptable_tools)
    /\ pc' = "score_tool"
    /\ UNCHANGED scoreVars
    /\ UNCHANGED <<test, actualTool, client, response, scorer, judge,
                   argResult, outcome, judgeCalls>>
    /\ UNCHANGED <<batchVars, readVars, schemaVars, usageVars, agentVars, floatVars>>

CallScoreArgs ==
    /\ pc = "start"
    /\ argResult' = ScoreArgs(scorer, test.expected_args, actual, judge)
    /\ judgeCalls' = judgeCalls
                     + ScoreArgsJudgeCalls(scorer, test.expected_args, actual)
    /\ pc' = "score_args"
    /\ UNCHANGED scoreVars
    /\ UNCHANGED <<test, actualTool, client, response, scorer, judge,
                   verdict, outcome>>
    /\ UNCHANGED <<batchVars, readVars, schemaVars, usageVars, agentVars, floatVars>>

CallRunSingle ==
    /\ pc = "start"
    /\ LET run == RunSingle(test, client, response, scorer, judge)
       IN  /\ outcome' = run.out
           /\ judgeCalls' = judgeCalls + run.judge_calls
    /\ pc' = "run_single"
    /\ UNCHANGED scoreVars
    /\ UNCHANGED <<test, actualTool, client, response, scorer, judge,
                   verdict, argResult>>
    /\ UNCHANGED <<batchVars, readVars, schemaVars, usageVars, agentVars, floatVars>>

(***************************************************************************)
(* Specifications                                                          *)
(***************************************************************************)
Next == CallNormalizeValue \/ CallValuesMatch \/ CallExactMatchScore
Spec == Init /\ [][Next]_vars

NextArgs == CallScoreTool \/ CallScoreArgs
SpecArgs == InitArgs /\ [][NextArgs]_vars

NextRun == CallRunSingle
SpecRun == InitRun /\ [][NextRun]_vars


(***************************************************************************)
(* Properties of the structural scorer (specification Spec)                *)
(***************************************************************************)
Scored == pc \in {"values_match", "exact_match_score"}
AllKeys == DOMAIN expected.o \cup DOMAIN actual.o
ExtraKeys == DOMAIN actual.o \ DOMAIN expected.o
NonNullExtraKeys == {k \in ExtraKeys : actual.o[k] # VNull}
\* every key of expected is in actual with the very same value
ExpectedKeysMatch ==
    \A k \in DOMAIN expected.o :
        k \in DOMAIN actual.o /\ actual.o[k] = expected.o[k]

\* C1: values_match and exact_match_score return a number in [0,1] for
\* every pair of JSON-shaped values.
C1_ScoreInUnitInterval ==
    Scored => RLeq(R0, score) /\ RLeq(score, R1)

\* a pair of nested lists that earns partial credit
C1_Witness ==
    /\ pc = "values_match"
    /\ IsList(expected) /\ IsList(actual)
    /\ \E i \in 1..Len(expected.l) : IsList(expected.l[i])
    /\ score \notin {R0, R1}

\* C2: a value scores 1.0 against itself.
C2_Reflexive ==
    Scored /\ expected = actual => score = R1

\* an object with a null-valued key and a nested list, against itself
C2_Witness ==
    /\ pc = "exact_match_score"
    /\ expected = actual
    /\ \E k \in DOMAIN expected.o : expected.o[k] = VNull
    /\ \E k \in DOMAIN expected.o : IsList(expected.o[k])
    /\ score = R1

\* C3: when every key of expected that actual lacks is null, the other
\* keys match exactly and actual has no extra key, the score is 1.0; so
\* expected {a: null} against actual {} scores 1.0.
C3_OmittedOptionalNotPenalized ==
    ( /\ pc = "exact_match_score"
      /\ ExtraKeys = {}
      /\ \A k \in DOMAIN expected.o :
            IF k \in DOMAIN actual.o THEN actual.o[k] = expected.o[k]
            ELSE expected.o[k] = VNull )
    => score = R1

RECURSIVE PositionalSum(_, _, _)
PositionalSum(e, a, n) ==
    IF n = 0 THEN R0
    ELSE RAdd(PositionalSum(e, a, n - 1), ValuesMatch(e[n], a[n]))

\* C5: two lists score the sum of the position-by-position scores of the
\* overlapping prefix divided by the longer length; two empty lists score
\* 1.0 and an empty list against a non-empty one scores 0.0.
C5_PositionalZeroPadded ==
    pc = "values_match" /\ IsList(expected) /\ IsList(actual) =>
        LET e == expected.l
            a == actual.l
        IN  /\ score = IF e = <<>> /\ a = <<>> THEN R1
                       ELSE RDiv(PositionalSum(e, a, Min(Len(e), Len(a))),
                                 Max(Len(e), Len(a)))
            /\ (e = <<>>) # (a = <<>>) => score = R0
            /\ (e = <<VNum(1), VNum(2), VNum(3)>>
                /\ a = <<VNum(1), VNum(2), VNum(4)>> => score = Rat(2, 3))
            /\ (e = <<VNum(1), VNum(2)>>
                /\ a = <<VNum(1), VNum(2), VNum(3)>> => score = Rat(2, 3))

\* [1,2] against [1,2,3]
C5_Witness ==
    /\ pc = "values_match"
    /\ expected = VList(<<VNum(1), VNum(2)>>)
    /\ actual = VList(<<VNum(1), VNum(2), VNum(3)>>)
    /\ score = Rat(2, 3)

\* a string that is taken for a timestamp
TimestampLike(v) ==
    /\ IsStr(v)
    /\ Len(v.s) >= 16
    /\ v.s[11] = "T"
    /\ Cardinality({i \in 1..Len(v.s) : v.s[i] = ":"}) >= 2
Minute(v) == SubSeq(v.s, 1, 16)

\* C6: a timestamp-like string is cut to its first 16 characters on both
\* sides before comparing, every other value is left as it is, and
\* normalize_value is idempotent; so two timestamps score 1.0 when they
\* agree up to the minute and 0.0 when they do not, also inside a list or
\* an object.
C6_TimestampNormalization ==
    /\ pc = "normalize_value" =>
          /\ normalized = IF TimestampLike(expected)
                          THEN VStr(Minute(expected)) ELSE expected
          /\ NormalizeValue(normalized) = normalized
    /\ pc = "values_match" /\ TimestampLike(expected) /\ TimestampLike(actual) =>
          score = IF Minute(expected) = Minute(actual) THEN R1 ELSE R0
    /\ Scored /\ expected = Obj1("a", TS_1030_00)
              /\ actual \in {Obj1("a", TS_1030_45), Obj1("a", TS_1030)}
          => score = R1
    /\ Scored /\ expected = VList(<<TS_1030_00, VNum(1)>>)
              /\ actual = VList(<<TS_1030_45, VNum(1)>>)
          => score = R1

\* "2024-01-01T10:30:00" against "2024-01-01T10:30:45"
C6_Witness ==
    /\ pc = "values_match"
    /\ expected = TS_1030_00
    /\ actual = TS_1030_45
    /\ score = R1


(***************************************************************************)
(* Properties of the Scorer (specification SpecArgs)                       *)
(***************************************************************************)
\* the actual tool name is there and is not the empty string
ToolPresent == actualTool # None /\ actualTool # Some("")
IsExpectedTool == actualTool = Some(test.expected_tool)
IsAlternative ==
    /\ test.acceptable_tools # None
    /\ \E i \in DOMAIN The(test.acceptable_tools) :
          actualTool = Some(The(test.acceptable_tools)[i])

\* C7: score_tool returns true exactly when the actual tool name is
\* present and is the expected name or one of the acceptable alternatives;
\* otherwise it returns false with a non-empty reason.  A missing name is
\* never correct, and an exact match is reported as an exact match.
C7_ToolVerdict ==
    pc = "score_tool" =>
        /\ verdict[1] = (ToolPresent /\ (IsExpectedTool \/ IsAlternative))
        /\ (~verdict[1] => verdict[2] # <<>> /\ verdict[2][1] # "")
        /\ (actualTool = None => ~verdict[1])
        /\ (IsExpectedTool => verdict = <<TRUE, <<"Exact match">>>>)

\* a tool that is not the expected one is accepted as an alternative
C7_Witness ==
    /\ pc = "score_tool"
    /\ ToolPresent /\ ~IsExpectedTool /\ IsAlternative
    /\ verdict[1]

\* the judge cannot be asked, or its reply is no JSON object with a number
\* as score
JudgeUnavailable ==
    \/ ~scorer.client
    \/ judge.kind \in {"no_model", "api_error"}
JudgeDocuments ==
    IF judge.kind = "reply" /\ judge.content # None
    THEN {The(judge.content)[i].v : i \in {n \in DOMAIN The(judge.content) :
                                            The(judge.content)[n].k = "json"}}
    ELSE {}
JudgeMalformed ==
    /\ judge.kind = "reply"
    /\ \/ JudgeDocuments = {}
       \/ \E d \in JudgeDocuments :
             \/ ~IsDict(d)
             \/ "score" \notin DOMAIN d.o
             \/ d.o["score"].t \in {"null", "list", "obj"}
             \/ d.o["score"] = VStr(<<"h", "i", "g", "h">>)

\* C9: score_args of a semantic scorer always returns a score, and when
\* the judge is unavailable or its reply is malformed that score is
\* exact_match_score(expected, actual).
C9_SemanticFallbackNeverRaises ==
    pc = "score_args" /\ scorer.use_semantic =>
        /\ argResult.kind = "return"
        /\ (JudgeUnavailable \/ JudgeMalformed =>
              argResult = Return(ExactMatchScore(test.expected_args, actual)))

\* the judge's reply is one JSON object whose score is a number
JudgeGivesNumber ==
    /\ scorer.use_semantic /\ scorer.client
    /\ judge.kind = "reply"
    /\ Cardinality(JudgeDocuments) = 1
    /\ \A d \in JudgeDocuments :
          IsDict(d) /\ "score" \in DOMAIN d.o /\ d.o["score"].t \in {"num", "frac"}

\* C10: whenever the judge replies with a JSON object that has a numeric
\* score, the score score_args returns lies in [0,1].
C10_JudgeScoreClamped ==
    pc = "score_args" /\ JudgeGivesNumber /\ argResult.kind = "return" =>
        RLeq(R0, argResult.value) /\ RLeq(argResult.value, R1)

(***************************************************************************)
(* Properties of run_single (specification SpecRun)                        *)
(***************************************************************************)
Returned == pc = "run_single" /\ outcome.kind = "return"

\* the model's first call names neither the expected tool nor an
\* acceptable alternative, or there is no call
FirstCallName ==
    IF response.kind = "return" /\ response.value.result # <<>>
    THEN response.value.result[1].name ELSE None
WrongTool ==
    \/ FirstCallName \in {None, Some("")}
    \/ /\ FirstCallName # Some(test.expected_tool)
       /\ \/ test.acceptable_tools = None
          \/ \A i \in DOMAIN The(test.acceptable_tools) :
                FirstCallName # Some(The(test.acceptable_tools)[i])

\* C8: an outcome whose correct_tool is false has an argument score of
\* 0.0, whatever the arguments and the scoring mode, and the judge is not
\* called when the tool is wrong.
C8_WrongToolScoresZero ==
    /\ Returned /\ ~outcome.value.correct_tool =>
          outcome.value.correct_args = R0
    /\ pc = "run_single" /\ WrongTool =>
          /\ judgeCalls = 0
          /\ outcome.kind = "return" => ~outcome.value.correct_tool

\* the model called another tool with arguments equal to the expected
\* ones, under a semantic scorer
C8_Witness ==
    /\ Returned
    /\ WrongTool
    /\ ~outcome.value.correct_tool
    /\ outcome.value.success
    /\ outcome.value.actual_args = Some(test.expected_args)
    /\ Truthy(test.expected_args)
    /\ scorer.use_semantic /\ scorer.client
    /\ judge.kind = "reply"

(***************************************************************************)
(* harness/metrics.py: CallMetrics.to_dict and MetricsWriter.write         *)
(***************************************************************************)
\* an optional field in JSON: null, or the value
JNull == [j |-> "null"]
JVal(x) == [j |-> "value", v |-> x]
JsonOpt(x) == IF IsSome(x) THEN JVal(The(x)) ELSE JNull

\* asdict(metrics): the fields of the record as a dict
ToDict(m) ==
    [test_id |-> m.test_id, tier |-> m.tier, success |-> m.success,
     correct_tool |-> m.correct_tool, correct_args |-> m.correct_args,
     retries |-> m.retries, input_tokens |-> m.input_tokens,
     output_tokens |-> m.output_tokens,
     thinking_tokens |-> m.thinking_tokens, latency_ms |-> m.latency_ms,
     expected_tool |-> m.expected_tool, expected_args |-> m.expected_args,
     actual_tool |-> JsonOpt(m.actual_tool),
     actual_args |-> JsonOpt(m.actual_args),
     error |-> JsonOpt(m.error), model |-> JsonOpt(m.model)]

\* json.dumps(d) + "\n": one line of text holding the JSON document d
Dumps(d) == [text |-> "json", doc |-> d]

\* The bug "the file is opened for writing, not for appending".
WriteTruncating(file, m) == <<Dumps(ToDict(m))>>

\* MetricsWriter.write on a file given as its sequence of lines
Write(file, m) == Append(file, Dumps(ToDict(m)))

(***************************************************************************)
(* EvalRunner.run_tests                                                    *)
(***************************************************************************)
MaxTests == 2

BatchTests ==
    { [id |-> "t1", tier |-> 1, expected_tool |-> "get_weather",
       expected_args |-> Obj1("a", VNum(1)), acceptable_tools |-> None],
      [id |-> "t2", tier |-> 1, expected_tool |-> "search",
       expected_args |-> VObj(EmptyObj), acceptable_tools |-> None],
      [id |-> "t3", tier |-> 2, expected_tool |-> "get_forecast",
       expected_args |-> Obj2("a", VNum(1), "b", VNum(2)),
       acceptable_tools |-> Some(<<"get_weather">>)] }

WeatherCall ==
    [wire |-> "dict", name |-> Some("get_weather"),
     args |-> [kind |-> "json", v |-> Obj1("a", VNum(1))]]
SearchCall ==
    [wire |-> "dict", name |-> Some("search"),
     args |-> [kind |-> "json", v |-> VObj(EmptyObj)]]
BrokenCall ==
    [wire |-> "object", name |-> Some("get_weather"),
     args |-> [kind |-> "nonstr", v |-> VNull]]

BatchAnswers ==
    { Raise("ReadTimeout"), Return(ModelResponse(<<>>)),
      Return(ModelResponse(<<WeatherCall>>)),
      Return(ModelResponse(<<SearchCall>>)),
      Return(ModelResponse(<<BrokenCall>>)) }

SeqsUpTo(S, n) == UNION {[1..k -> S] : k \in 0..n}

\* a line written by an earlier run
OldLine ==
    Dumps([test_id |-> "t0", tier |-> 1, success |-> TRUE,
           correct_tool |-> TRUE, correct_args |-> R1, retries |-> 0,
           input_tokens |-> 100, output_tokens |-> 20,
           thinking_tokens |-> 0, latency_ms |-> 300,
           expected_tool |-> "search", expected_args |-> VObj(EmptyObj),
           actual_tool |-> JVal("search"),
           actual_args |-> JVal(VObj(EmptyObj)),
           error |-> JNull, model |-> JVal("model-a")])

SemanticScorer == [use_semantic |-> TRUE, client |-> TRUE]
FailingJudge == [kind |-> "api_error"]

\* an EvalRunner, a list of tests, what the server answers to each and the
\* log file the outcomes go to
InitTests ==
    /\ pc = "start"
    /\ expected = VNull
    /\ actual = VNull
    /\ normalized = VNull
    /\ score = R0
    /\ test = IdleTest
    /\ actualTool = None
    /\ client \in Clients
    /\ response = Raise("ReadTimeout")
    /\ scorer \in {IdleScorer, SemanticScorer}
    /\ judge = IF scorer = SemanticScorer THEN FailingJudge ELSE NoJudge
    /\ client.model # "configured" => scorer = IdleScorer
    /\ verdict = NoVerdict
    /\ argResult = NoResult
    /\ outcome = NoResult
    /\ judgeCalls = 0
    /\ tests \in SeqsUpTo(BatchTests, MaxTests)
    /\ answers \in [1..Len(tests) -> BatchAnswers]
    /\ client.model \in {"none", "error"} =>
          \A i \in 1..Len(tests) : answers[i] = Raise("ReadTimeout")
    /\ output \in BOOLEAN
    /\ prior \in IF output THEN {<<>>, <<OldLine>>} ELSE {<<>>}
    /\ log = prior
    /\ results = <<>>
    /\ raised = None
    /\ IdleRead /\ IdleSchema
    /\ IdleUsage /\ IdleAgent /\ IdleFloat

\* lines 198-199: the empty result list and the writer
CallRunTests ==
    /\ pc = "start"
    /\ results' = <<>>
    /\ pc' = "run_tests"
    /\ UNCHANGED <<scoreVars, runVars, readVars, schemaVars, usageVars, agentVars, floatVars>>
    /\ UNCHANGED <<tests, answers, output, prior, log, raised>>

\* lines 208-214: one turn of the loop.  An exception that leaves
\* run_single leaves run_tests.
RunTestsStep ==
    /\ pc = "run_tests"
    /\ Len(results) < Len(tests)
    /\ LET i == Len(results) + 1
           run == RunSingle(tests[i], client, answers[i], scorer, judge)
       IN  /\ judgeCalls' = judgeCalls + run.judge_calls
           /\ IF run.out.kind = "raise"
              THEN /\ raised' = Some(run.out.exc)
                   /\ pc' = "raised"
                   /\ UNCHANGED <<results, log>>
              ELSE /\ results' = Append(results, run.out.value)
                   /\ log' = IF output THEN Write(log, run.out.value) ELSE log
                   /\ UNCHANGED <<pc, raised>>
    /\ UNCHANGED <<scoreVars, readVars, schemaVars, usageVars, agentVars, floatVars>>
    /\ UNCHANGED <<test, actualTool, client, response, scorer, judge,
                   verdict, argResult, outcome>>
    /\ UNCHANGED <<tests, answers, output, prior>>

\* line 215: return results
ReturnResults ==
    /\ pc = "run_tests"
    /\ Len(results) = Len(tests)
    /\ pc' = "returned"
    /\ UNCHANGED <<scoreVars, runVars, batchVars, readVars, schemaVars, usageVars, agentVars, floatVars>>

NextTests == CallRunTests \/ RunTestsStep \/ ReturnResults
SpecTests == InitTests /\ [][NextTests]_vars

(***************************************************************************)
(* Properties of run_tests and of the log (specification SpecTests)        *)
(***************************************************************************)
\* the model call of the i-th test fails: no model, a timeout or a
\* transport error
ModelCallFails(i) == CallWithTools(client, answers[i]).kind = "raise"

\* C11: run_tests never stops because of one test: it returns one outcome
\* per test, in test order, and the outcome of a test whose model call
\* failed is a failed one that carries the error.
C11_RunNeverAborts ==
    /\ pc # "raised"
    /\ pc = "returned" =>
          /\ Len(results) = Len(tests)
          /\ \A i \in 1..Len(tests) :
                /\ results[i].test_id = tests[i].id
                /\ ModelCallFails(i) =>
                      ~results[i].success /\ IsSome(results[i].error)

\* C12: with no model available (none configured, none listed by the
\* server) the run raises to its caller before any test executes: no
\* outcome is collected and no line is appended to the log.
C12_NoModelIsFatal ==
    client.model = "none" /\ tests # <<>> =>
        /\ results = <<>>
        /\ log = prior
        /\ pc # "returned"

\* the outcome run_single returns for the i-th test of the run
OutcomeOf(i) ==
    RunSingle(tests[i], client, answers[i], scorer, judge).out.value

\* the lines of the outcomes of the first k tests, in test order
OutcomeLines(k) == [i \in 1..k |-> Dumps(ToDict(OutcomeOf(i)))]

\* C13: the log is append-only and in call order: at every point of a run
\* that writes a log, and so before each model call, the log is its
\* earlier content followed by one line per test run so far, the i-th
\* being the outcome of the i-th test.
C13_LogAppendOnlyInOrder ==
    pc \in {"run_tests", "raised", "returned"} /\ output =>
        log = prior \o OutcomeLines(Len(results))

\* a run of two tests, one failed and one successful, on a log that
\* already holds a line
C13_Witness ==
    /\ pc = "returned" /\ output
    /\ prior # <<>>
    /\ Len(results) = 2
    /\ \E i, j \in 1..2 : IsSome(results[i].error) /\ results[j].correct_tool
    /\ Len(log) = Len(prior) + 2

(***************************************************************************)
(* harness/metrics.py: MetricsReader.read_all and MetricsReader.aggregate  *)
(***************************************************************************)
BlankLine == [text |-> "blank"]
GarbageLine == [text |-> "garbage"]

\* json.loads(line)
Loads(line) ==
    IF line.text = "json" THEN Return(line.doc) ELSE Raise("JSONDecodeError")

FromJson(x) == IF x.j = "null" THEN None ELSE Some(x.v)

\* CallMetrics.from_dict: cls(**data)
FromDict(d) ==
    [test_id |-> d.test_id, tier |-> d.tier, success |-> d.success,
     correct_tool |-> d.correct_tool, correct_args |-> d.correct_args,
     retries |-> d.retries, input_tokens |-> d.input_tokens,
     output_tokens |-> d.output_tokens,
     thinking_tokens |-> d.thinking_tokens, latency_ms |-> d.latency_ms,
     expected_tool |-> d.expected_tool, expected_args |-> d.expected_args,
     actual_tool |-> FromJson(d.actual_tool),
     actual_args |-> FromJson(d.actual_args),
     error |-> FromJson(d.error), model |-> FromJson(d.model)]

\* The bug "the file is emptied by being read".
AfterReadConsumed(file) == <<>>

\* open(path, "r"): the content of the file once it has been read
AfterRead(file) == file

\* read_all: the CallMetrics of the non-blank lines, in file order, or the
\* error of the first line that is not JSON
RECURSIVE ReadAll(_)
ReadAll(file) ==
    IF file = <<>> THEN Return(<<>>)
    ELSE IF Head(file).text = "blank" THEN ReadAll(Tail(file))
    ELSE LET doc == Loads(Head(file))
         IN  IF doc.kind = "raise" THEN doc
             ELSE LET rest == ReadAll(Tail(file))
                  IN  IF rest.kind = "raise" THEN rest
                      ELSE Return(<<FromDict(doc.value)>> \o rest.value)

\* sum(x for x in xs) over a list of integers
RECURSIVE SumSeq(_)
SumSeq(xs) == IF xs = <<>> THEN 0 ELSE Head(xs) + SumSeq(Tail(xs))

RECURSIVE SumScore(_)
SumScore(calls) ==
    IF calls = <<>> THEN R0
    ELSE RAdd(Head(calls).correct_args, SumScore(Tail(calls)))

IsSuccess(c) == c.success
IsCorrectTool(c) == c.correct_tool

\* sum(1 for c in calls if c.success), ... if c.correct_tool)
Successful(calls) == Len(SelectSeq(calls, IsSuccess))
CorrectTool(calls) == Len(SelectSeq(calls, IsCorrectTool))

\* The bug "the entry of a tier is computed over the whole log".
TierCallsAllTiers(calls, tier) == calls

\* [c for c in calls if c.tier == tier]
TierCalls(calls, tier) == SelectSeq(calls, LAMBDA c : c.tier = tier)

\* lines 162-173: the entry of one tier
TierResult(calls, tier) ==
    LET tier_calls == TierCalls(calls, tier)
        tier_total == Len(tier_calls)
    IN  [total |-> tier_total,
         success_rate |-> Rat(Successful(tier_calls), tier_total),
         tool_accuracy |-> Rat(CorrectTool(tier_calls), tier_total),
         avg_arg_score |-> RDiv(SumScore(tier_calls), tier_total)]

NoTiers == [tier \in {} |-> 0]

\* calls[0].model or "unknown"
ModelOrUnknown(m) == IF IsSome(m) /\ The(m) # "" THEN The(m) ELSE "unknown"

\* lines 137-185: the EvalResult of a list of CallMetrics
EvalResultOf(calls) ==
    IF calls = <<>>
    THEN [model |-> "unknown", total_tests |-> 0, successful |-> 0,
          correct_tool |-> 0, avg_arg_score |-> R0, avg_latency_ms |-> R0,
          avg_retries |-> R0, total_input_tokens |-> 0,
          total_output_tokens |-> 0, tier_results |-> NoTiers,
          calls |-> <<>>]
    ELSE LET total == Len(calls)
             tiers == {calls[i].tier : i \in 1..total}
         IN  [model |-> ModelOrUnknown(calls[1].model),
              total_tests |-> total,
              successful |-> Successful(calls),
              correct_tool |-> CorrectTool(calls),
              avg_arg_score |-> RDiv(SumScore(calls), total),
              avg_latency_ms |->
                  Rat(SumSeq([i \in 1..total |-> calls[i].latency_ms]), total),
              avg_retries |->
                  Rat(SumSeq([i \in 1..total |-> calls[i].retries]), total),
              total_input_tokens |->
                  SumSeq([i \in 1..total |-> calls[i].input_tokens]),
              total_output_tokens |->
                  SumSeq([i \in 1..total |-> calls[i].output_tokens]),
              tier_results |-> [tier \in tiers |-> TierResult(calls, tier)],
              calls |-> calls]

\* MetricsReader.aggregate on a file given as its sequence of lines
Aggregate(file) ==
    LET calls == ReadAll(file)
    IN  IF calls.kind = "raise" THEN calls
        ELSE Return(EvalResultOf(calls.value))

(***************************************************************************)
(* A log file read twice by MetricsReader.aggregate                        *)
(***************************************************************************)
MaxLines == 3

\* the CallMetrics of a call that failed, chose the right tool with half
\* right arguments, or was fully right
SampleMetrics(tier, quality, model) ==
    [test_id |-> "t1", tier |-> tier, success |-> quality # "failed",
     correct_tool |-> quality # "failed",
     correct_args |-> CASE quality = "failed" -> R0
                        [] quality = "half" -> Rat(1, 2)
                        [] quality = "full" -> R1,
     retries |-> 0,
     input_tokens |-> IF quality = "failed" THEN 0 ELSE 120,
     output_tokens |-> IF quality = "failed" THEN 0 ELSE 30,
     thinking_tokens |-> 0,
     latency_ms |-> IF quality = "failed" THEN 0 ELSE 450,
     expected_tool |-> "get_weather", expected_args |-> Obj1("a", VNum(1)),
     actual_tool |-> IF quality = "failed" THEN None ELSE Some("get_weather"),
     actual_args |-> IF quality = "failed" THEN None
                     ELSE Some(Obj1("a", VNum(1))),
     error |-> IF quality = "failed" THEN Some("ReadTimeout") ELSE None,
     model |-> model]

LogLines ==
    { BlankLine, GarbageLine }
    \cup { Dumps(ToDict(SampleMetrics(tier, quality, Some("model-a")))) :
             tier \in {1, 2}, quality \in {"failed", "half", "full"} }
    \cup { Dumps(ToDict(SampleMetrics(tier, "failed", None))) :
             tier \in {1, 2} }

\* a log file and a reader
InitRead ==
    /\ pc = "start"
    /\ expected = VNull
    /\ actual = VNull
    /\ normalized = VNull
    /\ score = R0
    /\ test = IdleTest
    /\ actualTool = None
    /\ client = IdleClient
    /\ response = Raise("ReadTimeout")
    /\ scorer = IdleScorer
    /\ judge = NoJudge
    /\ verdict = NoVerdict
    /\ argResult = NoResult
    /\ outcome = NoResult
    /\ judgeCalls = 0
    /\ tests = <<>>
    /\ answers = <<>>
    /\ output = FALSE
    /\ log \in SeqsUpTo(LogLines, MaxLines)
    /\ prior = log
    /\ results = <<>>
    /\ raised = None
    /\ IdleRead /\ IdleSchema
    /\ IdleUsage /\ IdleAgent /\ IdleFloat

\* reader.aggregate(), the first time
CallAggregate ==
    /\ pc = "start"
    /\ summary' = Aggregate(log)
    /\ log' = AfterRead(log)
    /\ pc' = "aggregate"
    /\ UNCHANGED <<scoreVars, runVars, schemaVars, usageVars, agentVars, floatVars, summary2>>
    /\ UNCHANGED <<tests, answers, output, prior, results, raised>>

\* reader.aggregate(), a second time
CallAggregateAgain ==
    /\ pc = "aggregate"
    /\ summary2' = Aggregate(log)
    /\ log' = AfterRead(log)
    /\ pc' = "aggregate2"
    /\ UNCHANGED <<scoreVars, runVars, schemaVars, usageVars, agentVars, floatVars, summary>>
    /\ UNCHANGED <<tests, answers, output, prior, results, raised>>

NextRead == CallAggregate \/ CallAggregateAgain
SpecRead == InitRead /\ [][NextRead]_vars

Str(part) == VStr(<<part>>)
DefsPrefix == "#/$defs/"
RefTo(name) == VStr(<<DefsPrefix, name>>)

\* ref_path.startswith("#/$defs/")
StartsWithDefs(ref_path) == Len(ref_path.s) >= 1 /\ ref_path.s[1] = DefsPrefix

\* ref_path[len("#/$defs/"):]
DefName(ref_path) == IF Len(ref_path.s) >= 2 THEN ref_path.s[2] ELSE ""

\* a dict or list built from parts that were computed by calls: the first
\* exception among them leaves the call, otherwise the parts are put
\* together.  (A function does not keep the order of the keys; the
\* schemas looked at hold at most one kind of error.)
Raised(parts) == {k \in DOMAIN parts : parts[k].kind = "raise"}
ValuesOf(parts) == [k \in DOMAIN parts |-> parts[k].value]

RECURSIVE ResolveRefs(_, _, _)

\* The bug "the references of a referenced definition are not resolved".
ResolveRefsOneLevel(schema, defs, stack) ==
    IF IsDict(schema)
    THEN IF "$ref" \in DOMAIN schema.o
         THEN LET ref_path == schema.o["$ref"]
              IN  IF ~IsStr(ref_path) THEN Raise("AttributeError")
                  ELSE IF StartsWithDefs(ref_path)
                          /\ DefName(ref_path) \in DOMAIN defs.o
                  THEN IF DefName(ref_path) \in stack
                       THEN Raise("RecursionError")
                       ELSE Return(defs.o[DefName(ref_path)])
                  ELSE Return(schema)
         ELSE LET parts == [k \in DOMAIN schema.o |->
                               ResolveRefs(schema.o[k], defs, stack)]
              IN  IF Raised(parts) # {}
                  THEN parts[CHOOSE k \in Raised(parts) : TRUE]
                  ELSE Return(VObj(ValuesOf(parts)))
    ELSE IF IsList(schema)
    THEN LET parts == [i \in 1..Len(schema.l) |->
                          ResolveRefs(schema.l[i], defs, stack)]
         IN  IF Raised(parts) # {}
             THEN parts[CHOOSE i \in Raised(parts) : TRUE]
             ELSE Return(VList(ValuesOf(parts)))
    ELSE Return(schema)

\* resolve_refs.  stack: the names of the definitions whose expansion the
\* call is nested in.  Expanding a definition inside its own expansion
\* repeats the same call without end, which Python ends by RecursionError.
ResolveRefs(schema, defs, stack) ==
    IF IsDict(schema)
    THEN IF "$ref" \in DOMAIN schema.o
         THEN LET ref_path == schema.o["$ref"]
              IN  IF ~IsStr(ref_path) THEN Raise("AttributeError")
                  ELSE IF StartsWithDefs(ref_path)
                          /\ DefName(ref_path) \in DOMAIN defs.o
                  THEN IF DefName(ref_path) \in stack
                       THEN Raise("RecursionError")
                       ELSE ResolveRefs(defs.o[DefName(ref_path)], defs,
                                        stack \cup {DefName(ref_path)})
                  ELSE Return(schema)
         ELSE LET parts == [k \in DOMAIN schema.o |->
                               ResolveRefs(schema.o[k], defs, stack)]
              IN  IF Raised(parts) # {}
                  THEN parts[CHOOSE k \in Raised(parts) : TRUE]
                  ELSE Return(VObj(ValuesOf(parts)))
    ELSE IF IsList(schema)
    THEN LET parts == [i \in 1..Len(schema.l) |->
                          ResolveRefs(schema.l[i], defs, stack)]
         IN  IF Raised(parts) # {}
             THEN parts[CHOOSE i \in Raised(parts) : TRUE]
             ELSE Return(VList(ValuesOf(parts)))
    ELSE Return(schema)

\* s.get("type") != "null"
NotNullType(s) == Get(s, "type") # Str("null")

\* The bug "the description of a union branch is stripped like any other".
KeptKeysNoBranchDescription(schema, strip_metadata, in_anyof) ==
    { k \in DOMAIN schema.o :
        /\ k # "$defs"
        /\ ~(k = "default" /\ schema.o[k] = VNull)
        /\ ~(strip_metadata /\ k = "title")
        /\ ~(strip_metadata /\ k = "description") }

\* the keys the plain-node loop of _cleanup_schema keeps (lines 88-102)
KeptKeys(schema, strip_metadata, in_anyof) ==
    { k \in DOMAIN schema.o :
        /\ k # "$defs"
        /\ ~(k = "default" /\ schema.o[k] = VNull)
        /\ ~(strip_metadata /\ k = "title")
        /\ ~(strip_metadata /\ k = "description" /\ ~in_anyof) }

RECURSIVE CleanupSchema(_, _, _)

\* The bug "a union is collapsed only when its null branch comes last".
CleanupSchemaNullLast(schema, strip_metadata, in_anyof) ==
    IF IsDict(schema)
    THEN IF "anyOf" \in DOMAIN schema.o
         THEN LET branches == schema.o["anyOf"].l
                  non_null == SelectSeq(branches, NotNullType)
              IN  IF Len(non_null) = 1 /\ ~NotNullType(branches[Len(branches)])
                  THEN LET rest == [k \in DOMAIN schema.o \ {"anyOf"} |->
                                       schema.o[k]]
                       IN  CleanupSchema(VObj(non_null[1].o @@ rest),
                                         strip_metadata, in_anyof)
                  ELSE VObj([k \in DOMAIN schema.o |->
                               IF k = "anyOf"
                               THEN VList([i \in 1..Len(branches) |->
                                             CleanupSchema(branches[i],
                                                           strip_metadata,
                                                           TRUE)])
                               ELSE CleanupSchema(schema.o[k], strip_metadata,
                                                  in_anyof)])
         ELSE VObj([k \in KeptKeys(schema, strip_metadata, in_anyof) |->
                      CleanupSchema(schema.o[k], strip_metadata, FALSE)])
    ELSE IF IsList(schema)
    THEN VList([i \in 1..Len(schema.l) |->
                  CleanupSchema(schema.l[i], strip_metadata, in_anyof)])
    ELSE schema

\* _cleanup_schema
CleanupSchema(schema, strip_metadata, in_anyof) ==
    IF IsDict(schema)
    THEN IF "anyOf" \in DOMAIN schema.o
         THEN LET branches == schema.o["anyOf"].l
                  non_null == SelectSeq(branches, NotNullType)
              IN  IF Len(non_null) = 1
                  THEN LET rest == [k \in DOMAIN schema.o \ {"anyOf"} |->
                                       schema.o[k]]
                       IN  CleanupSchema(VObj(non_null[1].o @@ rest),
                                         strip_metadata, in_anyof)
                  ELSE VObj([k \in DOMAIN schema.o |->
                               IF k = "anyOf"
                               THEN VList([i \in 1..Len(branches) |->
                                             CleanupSchema(branches[i],
                                                           strip_metadata,
                                                           TRUE)])
                               ELSE CleanupSchema(schema.o[k], strip_metadata,
                                                  in_anyof)])
         ELSE VObj([k \in KeptKeys(schema, strip_metadata, in_anyof) |->
                      CleanupSchema(schema.o[k], strip_metadata, FALSE)])
    ELSE IF IsList(schema)
    THEN VList([i \in 1..Len(schema.l) |->
                  CleanupSchema(schema.l[i], strip_metadata, in_anyof)])
    ELSE schema

\* schema.get("$defs", {})
DefsOf(s) == IF "$defs" \in DOMAIN s.o THEN s.o["$defs"] ELSE VObj(EmptyObj)

\* simplify_schema
SimplifySchema(s, strip_metadata) ==
    LET defs == DefsOf(s)
        resolved == IF ~Falsy(defs) THEN ResolveRefs(s, defs, {})
                    ELSE Return(s)
    IN  IF resolved.kind = "raise" THEN resolved
        ELSE Return(CleanupSchema(resolved.value, strip_metadata, FALSE))

(***************************************************************************)
(* The schemas handed to simplify_schema: what Pydantic's                  *)
(* model_json_schema() emits for the argument models of the tools          *)
(***************************************************************************)
TString == VObj("type" :> Str("string"))
TInteger == VObj("type" :> Str("integer"))
TNull == VObj("type" :> Str("null"))

With(node, key, value) == VObj((key :> value) @@ node.o)
Titled(node, text) == With(node, "title", Str(text))
Described(node, text) == With(node, "description", Str(text))
DefaultNull(node) == With(node, "default", VNull)

AnyOf(branches) == VObj("anyOf" :> VList(branches))
ArrayOf(item) == VObj(("type" :> Str("array")) @@ ("items" :> item))
ObjectOf(props) ==
    VObj(("type" :> Str("object")) @@ ("properties" :> VObj(props)))
Ref(name) == VObj("$ref" :> RefTo(name))

\* Optional[str] as Pydantic writes it
OptionalString ==
    DefaultNull(Titled(Described(AnyOf(<<TString, TNull>>), "the unit"),
                       "Unit"))

\* str | int, with and without None
StringOrInteger ==
    <<Described(Titled(TString, "Name"), "a name"),
      Described(TInteger, "an id")>>

PropSchemas ==
    { TString,
      Titled(Described(TString, "the city"), "City"),
      OptionalString,
      AnyOf(<<TNull, TInteger>>),
      ArrayOf(Titled(AnyOf(<<TInteger, TNull>>), "Item")),
      AnyOf(<<OptionalString, TNull>>),
      AnyOf(<<TNull>>),
      DefaultNull(Titled(Described(AnyOf(StringOrInteger), "name or id"),
                         "Key")),
      DefaultNull(AnyOf(StringOrInteger \o <<TNull>>)),
      AnyOf(<<Described(ObjectOf("r" :> Titled(Described(OptionalString,
                                                      "inner"), "R")),
                        "a record"),
              ArrayOf(Described(TString, "an element"))>>),
      AnyOf(<<Ref("Address"), Ref("Point")>>),
      Titled(AnyOf(<<Ref("Address"), TNull>>), "Where"),
      Ref("Address"),
      Ref("Missing"),
      VObj("$ref" :> VStr(<<"other.json#/", "Address">>)) }

PointDef ==
    Described(Titled(ObjectOf("x" :> Titled(TInteger, "X")), "Point"),
              "a point")
AddressDef(next) ==
    Described(Titled(ObjectOf(("street" :> Titled(TString, "Street"))
                              @@ ("at" :> next)),
                     "Address"),
              "an address")

\* definitions without references, a definition that uses another, one
\* that uses itself and two that use each other
PlainDefs ==
    VObj(("Address" :> AddressDef(OptionalString)) @@ ("Point" :> PointDef))
ChainedDefs ==
    VObj(("Address" :> AddressDef(Ref("Point"))) @@ ("Point" :> PointDef))
SelfDefs ==
    VObj(("Address" :> AddressDef(AnyOf(<<Ref("Address"), TNull>>)))
         @@ ("Point" :> PointDef))
MutualDefs ==
    VObj(("Address" :> AddressDef(Ref("Point")))
         @@ ("Point" :> ObjectOf("of" :> Ref("Address"))))

\* the definitions of a schema: none, an empty table, or one of the above
DefTables ==
    { None, Some(VObj(EmptyObj)), Some(PlainDefs), Some(ChainedDefs),
      Some(SelfDefs), Some(MutualDefs) }

WithDefs(node, table) ==
    IF IsSome(table) THEN With(node, "$defs", The(table)) ELSE node

\* the schema of a model with two fields, and of a model that is a union
ObjectRoots ==
    { WithDefs(Titled(Described(ObjectOf(("p" :> p) @@ ("q" :> q)),
                                "the arguments"), "Args"), table) :
        p \in PropSchemas, q \in PropSchemas, table \in DefTables }

UnionRoots ==
    { WithDefs(Titled(AnyOf(branches), "Args"), table) :
        branches \in { <<Ref("Address"), Ref("Point")>>,
                       StringOrInteger,
                       <<Ref("Point"), TNull>> },
        table \in DefTables }

\* the schema of a flat argument model such as CreateEventArgs (title,
\* date, attendees), all of whose fields are required
ParamNames == {"title", "date", "attendees", "description"}
ParamSchema(name) ==
    IF name = "attendees"
    THEN Titled(Described(ArrayOf(TString), "the people"), "Attendees")
    ELSE Titled(Described(TString, "a text"), "Field")
RECURSIVE NamesList(_)
NamesList(names) ==
    IF names = {} THEN <<>>
    ELSE LET n == CHOOSE x \in names : TRUE
         IN  <<Str(n)>> \o NamesList(names \ {n})
ArgsModel(names) ==
    Titled(Described(With(ObjectOf([n \in names |-> ParamSchema(n)]),
                          "required", VList(NamesList(names))),
                     "the arguments"), "Args")
ArgsRoots ==
    { WithDefs(ArgsModel(names), table) :
        names \in SUBSET ParamNames \ {{}}, table \in {None, Some(PlainDefs)} }

RootSchemas == ObjectRoots \cup UnionRoots \cup ArgsRoots

\* a schema and the strip_metadata flag
InitSchema ==
    /\ pc = "start"
    /\ expected = VNull
    /\ actual = VNull
    /\ normalized = VNull
    /\ score = R0
    /\ test = IdleTest
    /\ actualTool = None
    /\ client = IdleClient
    /\ response = Raise("ReadTimeout")
    /\ scorer = IdleScorer
    /\ judge = NoJudge
    /\ verdict = NoVerdict
    /\ argResult = NoResult
    /\ outcome = NoResult
    /\ judgeCalls = 0
    /\ IdleBatch /\ IdleRead /\ IdleUsage /\ IdleAgent /\ IdleFloat
    /\ rootSchema \in RootSchemas
    /\ strip \in BOOLEAN
    /\ simplified = NoResult

CallSimplifySchema ==
    /\ pc = "start"
    /\ simplified' = SimplifySchema(rootSchema, strip)
    /\ pc' = "simplify_schema"
    /\ UNCHANGED <<scoreVars, runVars, batchVars, readVars, usageVars,
                   agentVars, floatVars>>
    /\ UNCHANGED <<rootSchema, strip>>

NextSchema == CallSimplifySchema
SpecSchema == InitSchema /\ [][NextSchema]_vars

SchemaDone == pc = "simplify_schema"

(***************************************************************************)
(* Properties of the schema normalizer (specification SpecSchema)          *)
(***************************************************************************)
Simplified == pc = "simplify_schema" /\ simplified.kind = "return"

\* every dict of a JSON value, the value itself included
RECURSIVE Nodes(_)
Nodes(v) ==
    IF IsDict(v) THEN {v} \cup UNION {Nodes(v.o[k]) : k \in DOMAIN v.o}
    ELSE IF IsList(v) THEN UNION {Nodes(v.l[i]) : i \in 1..Len(v.l)}
    ELSE {}

IsUnion(n) == "anyOf" \in DOMAIN n.o
NonNullBranches(n) == SelectSeq(n.o["anyOf"].l, NotNullType)

\* the schema of field name in the input and in the output
FieldIn(name) == rootSchema.o["properties"].o[name]
FieldOut(name) == simplified.value.o["properties"].o[name]
HasFields(s) ==
    /\ "properties" \in DOMAIN s.o
    /\ {"p", "q"} \subseteq DOMAIN s.o["properties"].o

\* C15: no union of the output has exactly one non-null branch, at any
\* depth: each such union of the input is replaced by its branch.  The
\* union of integer and null becomes the bare integer node, and Pydantic's
\* Optional[str] the string node with the union's own annotations.
C15_OptionalCollapsed ==
    Simplified =>
        /\ \A n \in Nodes(simplified.value) :
              IsUnion(n) => Len(NonNullBranches(n)) # 1
        /\ HasFields(rootSchema) =>
              \A name \in {"p", "q"} :
                 /\ FieldIn(name) = AnyOf(<<TNull, TInteger>>) =>
                       FieldOut(name) = TInteger
                 /\ FieldIn(name) = OptionalString /\ ~strip =>
                       FieldOut(name) =
                           Titled(Described(TString, "the unit"), "Unit")
                 /\ FieldIn(name) = OptionalString /\ strip =>
                       FieldOut(name) = TString

\* optional fields at the top, inside an array, inside another optional
\* and inside a referenced definition
C15_Witness ==
    /\ Simplified
    /\ HasFields(rootSchema)
    /\ FieldIn("p") = ArrayOf(Titled(AnyOf(<<TInteger, TNull>>), "Item"))
    /\ FieldIn("q") = AnyOf(<<OptionalString, TNull>>)
    /\ FieldOut("p").o["items"].o["type"] = Str("integer")
    /\ FieldOut("q").o["type"] = Str("string")
    /\ \E n \in Nodes(DefsOf(rootSchema)) : IsUnion(n)

IsRef(n) == "$ref" \in DOMAIN n.o

\* every reference of the input names a definition of its $defs table
RefsNameDefinitions ==
    \A n \in Nodes(rootSchema) :
        IsRef(n) =>
            /\ IsStr(n.o["$ref"])
            /\ StartsWithDefs(n.o["$ref"])
            /\ DefName(n.o["$ref"]) \in DOMAIN DefsOf(rootSchema).o

\* the definitions of a table with their own references written out
WrittenOutDefs(table) ==
    IF table = ChainedDefs
    THEN VObj(("Address" :> AddressDef(PointDef)) @@ ("Point" :> PointDef))
    ELSE table

\* v with every reference to a definition of the written-out table hand
\* replaced by that definition
RECURSIVE WrittenOut(_, _)
WrittenOut(v, hand) ==
    IF IsDict(v)
    THEN IF IsRef(v) THEN hand.o[DefName(v.o["$ref"])]
         ELSE VObj([k \in DOMAIN v.o |-> WrittenOut(v.o[k], hand)])
    ELSE IF IsList(v)
    THEN VList([i \in 1..Len(v.l) |-> WrittenOut(v.l[i], hand)])
    ELSE v

HasReferences(s) == \E n \in Nodes(s) : IsRef(n)

\* C16: when every reference names a definition of $defs, the output
\* holds no $ref at all, and it is the output of the schema in which each
\* reference is written out by hand.
C16_ReferencesInlined ==
    Simplified /\ RefsNameDefinitions =>
        /\ ~HasReferences(simplified.value)
        /\ LET by_hand == WrittenOut(rootSchema,
                                     WrittenOutDefs(DefsOf(rootSchema)))
           IN  /\ ~HasReferences(by_hand)
               /\ SimplifySchema(by_hand, strip) = simplified

\* a field that references a definition that references another one
C16_Witness ==
    /\ Simplified /\ RefsNameDefinitions
    /\ DefsOf(rootSchema) = ChainedDefs
    /\ HasFields(rootSchema)
    /\ FieldIn("p") = Ref("Address")
    /\ FieldIn("q") = AnyOf(<<Ref("Address"), Ref("Point")>>)
    /\ FieldOut("p").o["properties"].o["at"].o["type"] = Str("object")

\* the references of the input that name no definition of its table
Unresolvable ==
    { n \in Nodes(rootSchema) :
        /\ IsRef(n)
        /\ ~(/\ IsStr(n.o["$ref"])
             /\ StartsWithDefs(n.o["$ref"])
             /\ DefName(n.o["$ref"]) \in DOMAIN DefsOf(rootSchema).o) }

\* C17: simplify_schema returns a schema for every input, also when a
\* reference names a missing definition, has another format, or when
\* definitions reference themselves or each other; a reference that
\* cannot be resolved stays in the output as it is.
C17_NormalizationNeverFails ==
    pc = "simplify_schema" =>
        /\ simplified.kind = "return"
        /\ \A n \in Unresolvable :
              \E m \in Nodes(simplified.value) :
                  IsRef(m) /\ m.o["$ref"] = n.o["$ref"]

HasNullDefault(n) == "default" \in DOMAIN n.o /\ n.o["default"] = VNull

\* C18: no node of the output carries $defs or a default that is null,
\* the nodes that hold a kept union included.
C18_NoDefsNoNullDefault ==
    Simplified =>
        \A n \in Nodes(simplified.value) :
            "$defs" \notin DOMAIN n.o /\ ~HasNullDefault(n)

\* the dicts of a JSON value, each with whether it is a direct branch of
\* a union
RECURSIVE Tagged(_, _)
Tagged(v, branch) ==
    IF IsDict(v)
    THEN {[node |-> v, branch |-> branch]}
         \cup UNION { IF k = "anyOf" /\ IsList(v.o[k])
                      THEN UNION {Tagged(v.o[k].l[i], TRUE) :
                                    i \in 1..Len(v.o[k].l)}
                      ELSE Tagged(v.o[k], FALSE) : k \in DOMAIN v.o }
    ELSE IF IsList(v)
    THEN UNION {Tagged(v.l[i], FALSE) : i \in 1..Len(v.l)}
    ELSE {}

\* C19: with strip_metadata on, no node of the output carries a title,
\* and only the direct branches of a kept union carry a description.
C19_MetadataStripped ==
    Simplified /\ strip =>
        \A x \in Tagged(simplified.value, FALSE) :
            /\ "title" \notin DOMAIN x.node.o
            /\ ~x.branch => "description" \notin DOMAIN x.node.o

IsKeptUnion(n) == IsUnion(n) /\ Len(NonNullBranches(n)) >= 2

Description(n) == Get(n, "description")

\* the description an input branch stands for: its own, or that of the
\* definition it references
BranchDescription(b) ==
    IF IsRef(b) /\ b \notin Unresolvable
    THEN Description(DefsOf(rootSchema).o[DefName(b.o["$ref"])])
    ELSE Description(b)

\* out is a union with the branches of the input union given, in the
\* same order and with the same descriptions
BranchesKept(given, out) ==
    /\ IsUnion(out)
    /\ Len(out.o["anyOf"].l) = Len(given.o["anyOf"].l)
    /\ \A i \in 1..Len(given.o["anyOf"].l) :
          /\ Description(out.o["anyOf"].l[i])
                = BranchDescription(given.o["anyOf"].l[i])
          /\ NotNullType(out.o["anyOf"].l[i])
                = NotNullType(given.o["anyOf"].l[i])

\* C20: every kept union of the input (a field, or the schema itself)
\* comes out as a union whose branches carry, in the input order, the
\* descriptions of the input branches or of the definitions these
\* reference, with strip_metadata off and on.
C20_BranchDescriptionsKept ==
    Simplified =>
        /\ IsKeptUnion(rootSchema) => BranchesKept(rootSchema, simplified.value)
        /\ HasFields(rootSchema) =>
              \A name \in {"p", "q"} :
                 IsKeptUnion(FieldIn(name)) =>
                     BranchesKept(FieldIn(name), FieldOut(name))

\* strip_metadata on: a union of two referenced definitions and a union
\* of string, integer and null
C20_Witness ==
    /\ Simplified /\ strip
    /\ HasFields(rootSchema)
    /\ DefsOf(rootSchema) = ChainedDefs
    /\ FieldIn("p") = AnyOf(<<Ref("Address"), Ref("Point")>>)
    /\ FieldIn("q") = DefaultNull(AnyOf(StringOrInteger \o <<TNull>>))
    /\ Description(FieldOut("p").o["anyOf"].l[1]) = Str("an address")
    /\ Description(FieldOut("p").o["anyOf"].l[2]) = Str("a point")
    /\ Description(FieldOut("q").o["anyOf"].l[2]) = Str("an id")
    /\ "title" \notin DOMAIN FieldOut("q").o["anyOf"].l[1].o

(***************************************************************************)
(* Properties of run_single's outcome record (specification SpecRun)       *)
(***************************************************************************)
\* the model call returned a response whose first tool call is named
ModelAnswered == CallWithTools(client, response).kind = "return"
HasToolCall == ModelAnswered /\ response.value.result # <<>>
FirstCall == response.value.result[1]
NamedCall == HasToolCall /\ IsSome(FirstCall.name)

\* C21: a first tool call whose arguments are not valid JSON, in the dict
\* and in the object wire shape, gives an outcome with actual_args = {},
\* the call's tool name, success = true and no error.
C21_MalformedArgsRecovered ==
    pc = "run_single" /\ NamedCall /\ FirstCall.args.kind = "invalid" =>
        /\ outcome.kind = "return"
        /\ outcome.value.actual_args = Some(VObj(EmptyObj))
        /\ outcome.value.actual_tool = FirstCall.name
        /\ outcome.value.success
        /\ outcome.value.error = None

\* a chat-completions object naming the expected tool with invalid JSON
C21_Witness ==
    /\ pc = "run_single" /\ NamedCall
    /\ FirstCall.wire = "object"
    /\ FirstCall.args.kind = "invalid"
    /\ FirstCall.name = Some(test.expected_tool)
    /\ outcome.kind = "return"
    /\ outcome.value.correct_tool
    /\ outcome.value.actual_args = Some(VObj(EmptyObj))

(***************************************************************************)
(* client.py: estimate_tokens and the reasoning-token count of             *)
(* LMStudioClient._call_responses_api                                      *)
(*                                                                         *)
(* A text is the sequence of its characters.                               *)
(***************************************************************************)
CharsPerToken == 4

\* estimate_tokens
EstimateTokens(text) ==
    IF text = <<>> THEN 0 ELSE Len(text) \div CharsPerToken

\* "\n".join(parts)
RECURSIVE Join(_)
Join(parts) ==
    IF parts = <<>> THEN <<>>
    ELSE IF Len(parts) = 1 THEN parts[1]
    ELSE parts[1] \o <<"\n">> \o Join(Tail(parts))

\* line 203: the reasoning text, or None without reasoning items
Thinking(thinking_parts) ==
    IF thinking_parts # <<>> THEN Some(Join(thinking_parts)) ELSE None

\* line 209: usage.get("output_tokens_details", {}).get("reasoning_tokens", 0)
ReasoningTokens(count) == IF IsSome(count) THEN The(count) ELSE 0

\* lines 209-213: the thinking_tokens of the ModelResponse
ThinkingTokens(count, thinking_parts) ==
    LET thinking == Thinking(thinking_parts)
        reasoning_tokens == ReasoningTokens(count)
    IN  IF reasoning_tokens = 0 /\ IsSome(thinking) /\ The(thinking) # <<>>
        THEN EstimateTokens(The(thinking))
        ELSE reasoning_tokens

MaxParts == 2

TextOf(n) == [i \in 1..n |-> "x"]
ReasoningTexts == {TextOf(0), TextOf(3), TextOf(4), TextOf(9)}
ReportedCounts == {None, Some(0), Some(1), Some(7), Some(25)}

\* the usage and the reasoning items of a backend answer
InitUsage ==
    /\ pc = "start"
    /\ expected = VNull
    /\ actual = VNull
    /\ normalized = VNull
    /\ score = R0
    /\ test = IdleTest
    /\ actualTool = None
    /\ client = IdleClient
    /\ response = Raise("ReadTimeout")
    /\ scorer = IdleScorer
    /\ judge = NoJudge
    /\ verdict = NoVerdict
    /\ argResult = NoResult
    /\ outcome = NoResult
    /\ judgeCalls = 0
    /\ IdleBatch /\ IdleRead /\ IdleSchema /\ IdleAgent /\ IdleFloat
    /\ reported \in ReportedCounts
    /\ thinkingParts \in SeqsUpTo(ReasoningTexts, MaxParts)
    /\ thinkingTokens = 0

\* _call_responses_api, from the answer of the backend on
CallResponsesApi ==
    /\ pc = "start"
    /\ thinkingTokens' = ThinkingTokens(reported, thinkingParts)
    /\ pc' = "responses_api"
    /\ UNCHANGED <<scoreVars, runVars, batchVars, readVars, schemaVars,
                   agentVars, floatVars>>
    /\ UNCHANGED <<reported, thinkingParts>>

NextUsage == CallResponsesApi
SpecUsage == InitUsage /\ [][NextUsage]_vars

(***************************************************************************)
(* Properties of the reasoning-token count (specification SpecUsage)       *)
(***************************************************************************)
ReasoningText == Join(thinkingParts)

\* C22: thinking_tokens is the count the backend reports whenever it
\* reports one; without a reported count it is the length of the
\* reasoning text divided by 4, rounded down, and 0 without such text.
C22_EstimateOnlyFallback ==
    pc = "responses_api" =>
        thinkingTokens =
            IF IsSome(reported) THEN The(reported)
            ELSE IF ReasoningText # <<>> THEN Len(ReasoningText) \div 4
            ELSE 0

\* C23: the outcome run_single returns has success = true, with the first
\* call's name as actual_tool, exactly when the model's response held a
\* tool call with a name, whatever happens while that call is scored.
C23_SuccessIffToolCall ==
    Returned =>
        ( NamedCall <=>
            /\ outcome.value.success
            /\ outcome.value.actual_tool = FirstCallName )

\* the decoded arguments of the outcome, None being Python's None
RecordedArgs ==
    IF IsSome(outcome.value.actual_args) THEN The(outcome.value.actual_args)
    ELSE VNull

\* C24: when the tool verdict is correct, the recorded argument score is
\* what score_args returns for the expected and the decoded arguments,
\* empty ones included: {} against {} records 1.0.
C24_ArgScoreIsScoreArgs ==
    Returned /\ outcome.value.correct_tool =>
        LET scored == ScoreArgs(scorer, test.expected_args, RecordedArgs, judge)
        IN  /\ scored.kind = "return" =>
                  outcome.value.correct_args = scored.value
            /\ test.expected_args = VObj(EmptyObj)
               /\ RecordedArgs = VObj(EmptyObj) =>
                  outcome.value.correct_args = R1

(***************************************************************************)
(* Properties of the summary of a log (specification SpecRead)             *)
(***************************************************************************)
Summarised == pc \in {"aggregate", "aggregate2"} /\ summary.kind = "return"

\* the records of the log: its lines that are not blank
LogRecords == SelectSeq(log, LAMBDA line : line.text = "json")
RecordsOfTier(tier) == {i \in 1..Len(LogRecords) : LogRecords[i].doc.tier = tier}
LogTiers == {LogRecords[i].doc.tier : i \in 1..Len(LogRecords)}

RECURSIVE SumOver(_, _)
SumOver(S, f) ==
    IF S = {} THEN 0
    ELSE LET x == CHOOSE y \in S : TRUE
         IN  f[x] + SumOver(S \ {x}, f)

RECURSIVE ScoreSumOver(_)
ScoreSumOver(S) ==
    IF S = {} THEN R0
    ELSE LET i == CHOOSE j \in S : TRUE
         IN  RAdd(LogRecords[i].doc.correct_args, ScoreSumOver(S \ {i}))

Count(S) == Cardinality(S)
Successes(S) == Cardinality({i \in S : LogRecords[i].doc.success})
RightTools(S) == Cardinality({i \in S : LogRecords[i].doc.correct_tool})

\* C25: the per-tier breakdown has one entry per tier of the log, each
\* computed over the records of that tier alone; the entries' totals sum
\* to total_tests and their success and correct-tool counts to the
\* run-level counts; an empty log gives the all-zero summary without
\* tier entries.
C25_TierBreakdownPartitions ==
    Summarised =>
        LET s == summary.value
            entries == s.tier_results
        IN  /\ DOMAIN entries = LogTiers
            /\ s.total_tests = Len(LogRecords)
            /\ \A tier \in DOMAIN entries :
                  LET S == RecordsOfTier(tier)
                  IN  /\ entries[tier].total = Count(S)
                      /\ entries[tier].success_rate = Rat(Successes(S), Count(S))
                      /\ entries[tier].tool_accuracy
                            = Rat(RightTools(S), Count(S))
                      /\ entries[tier].avg_arg_score
                            = RDiv(ScoreSumOver(S), Count(S))
            /\ SumOver(DOMAIN entries, [t \in DOMAIN entries |-> entries[t].total])
                  = s.total_tests
            /\ SumOver(DOMAIN entries,
                       [t \in DOMAIN entries |-> Successes(RecordsOfTier(t))])
                  = s.successful
            /\ SumOver(DOMAIN entries,
                       [t \in DOMAIN entries |-> RightTools(RecordsOfTier(t))])
                  = s.correct_tool
            /\ LogRecords = <<>> =>
                  /\ entries = NoTiers
                  /\ s.total_tests = 0 /\ s.successful = 0 /\ s.correct_tool = 0
                  /\ s.avg_arg_score = R0 /\ s.avg_latency_ms = R0
                  /\ s.avg_retries = R0
                  /\ s.total_input_tokens = 0 /\ s.total_output_tokens = 0

\* a log of three records in two tiers, one of them failed
C25_Witness ==
    /\ Summarised
    /\ Len(LogRecords) = 3
    /\ LogTiers = {1, 2}
    /\ summary.value.tier_results[1].total = 2
    /\ summary.value.tier_results[1].success_rate = Rat(1, 2)
    /\ summary.value.tier_results[2].avg_arg_score = Rat(1, 2)
    /\ summary.value.successful = 2

(***************************************************************************)
(* Consistency of the fields of one outcome record (specification SpecRun) *)
(***************************************************************************)
\* C26: in every outcome of run_single, correct_tool implies success, a
\* non-zero argument score implies correct_tool, success holds exactly
\* when actual_tool is not null, and an outcome with an error has
\* success = false, correct_tool = false, correct_args = 0.0, no actual
\* tool, no actual args and all token, latency and retry counters 0.
C26_OutcomeFieldsConsistent ==
    Returned =>
        LET m == outcome.value
        IN  /\ m.correct_tool => m.success
            /\ m.correct_args # R0 => m.correct_tool
            /\ m.success <=> IsSome(m.actual_tool)
            /\ IsSome(m.error) =>
                  /\ ~m.success
                  /\ ~m.correct_tool
                  /\ m.correct_args = R0
                  /\ m.actual_tool = None
                  /\ m.actual_args = None
                  /\ m.input_tokens = 0 /\ m.output_tokens = 0
                  /\ m.thinking_tokens = 0 /\ m.latency_ms = 0
                  /\ m.retries = 0

\* a named call was answered, and scoring it failed: the outcome is the
\* error record
C26_Witness ==
    /\ Returned
    /\ ModelAnswered /\ NamedCall
    /\ IsSome(outcome.value.error)
    /\ ~outcome.value.success

(***************************************************************************)
(* Python's float: IEEE 754 binary64, round to nearest, ties to even       *)
(*                                                                         *)
(* A non-negative float is held in fixed point: the integer                *)
(* value * 2^FracBits, written as Limbs digits of LimbBits bits each, the  *)
(* most significant first.  Every binary64 value from 2^(-7) up to 16 has  *)
(* all of its MantissaBits significant bits and the bit below them inside  *)
(* the digits; the scores below are quotients by at most 3 of sums of at   *)
(* most 3 scores, well inside that range.                                  *)
(***************************************************************************)
MantissaBits == 53
LimbBits == 16
Limbs == 4
FracBits == 60

LimbBase == 2^LimbBits

\* the literals 0.0 and 1.0
Float0 == [k \in 1..Limbs |-> 0]
Float1 ==
    [k \in 1..Limbs |->
        IF Limbs - k = FracBits \div LimbBits
        THEN 2^(FracBits % LimbBits) ELSE 0]

\* the digits k..Limbs of the exact sum x + y, and the carry out of them
RECURSIVE AddLimbs(_, _, _)
AddLimbs(x, y, k) ==
    IF k > Limbs THEN [s |-> <<>>, c |-> 0]
    ELSE LET d == AddLimbs(x, y, k + 1)
             t == x[k] + y[k] + d.c
         IN  [s |-> <<t % LimbBase>> \o d.s, c |-> t \div LimbBase]

\* long division of the digits 1..k of x by the integer n:
\* the quotient's digits and the remainder
RECURSIVE DivLimbs(_, _, _)
DivLimbs(x, n, k) ==
    IF k = 0 THEN [q |-> <<>>, r |-> 0]
    ELSE LET d == DivLimbs(x, n, k - 1)
             cur == d.r * LimbBase + x[k]
         IN  [q |-> Append(d.q, cur \div n), r |-> cur % n]

\* bit j of x, bit 0 being the least significant
Bit(x, j) == (x[Limbs - (j \div LimbBits)] \div 2^(j % LimbBits)) % 2

\* the number of bits of x up to its leading one
BitLength(x) ==
    LET k == CHOOSE i \in 1..Limbs : x[i] # 0 /\ \A j \in 1..(i - 1) : x[j] = 0
        b == CHOOSE i \in 1..LimbBits : 2^(i - 1) <= x[k] /\ x[k] < 2^i
    IN  (Limbs - k) * LimbBits + b

\* the binary64 value nearest to the exact value x (plus a non-zero rest
\* below the last digit when sticky), ties to even
RoundNearestEven(x, sticky) ==
    IF \A k \in 1..Limbs : x[k] = 0 THEN x
    ELSE LET drop == BitLength(x) - MantissaBits
         IN  IF drop <= 0 THEN x
             ELSE LET dropped(k) ==
                          Max(0, Min(LimbBits, drop - (Limbs - k) * LimbBits))
                      kept == [k \in 1..Limbs |->
                                  x[k] - (x[k] % 2^dropped(k))]
                      ulp == [k \in 1..Limbs |->
                                 IF Limbs - k = drop \div LimbBits
                                 THEN 2^(drop % LimbBits) ELSE 0]
                      rest == sticky \/ \E j \in 0..(drop - 2) : Bit(x, j) = 1
                      up == Bit(x, drop - 1) = 1 /\ (rest \/ Bit(x, drop) = 1)
                  IN  IF up THEN AddLimbs(kept, ulp, 1).s
                      ELSE [k \in 1..Limbs |-> kept[k]]

\* x + y and x / n on floats
FloatAdd(x, y) == RoundNearestEven(AddLimbs(x, y, 1).s, FALSE)
FloatDiv(x, n) ==
    LET d == DivLimbs(x, n, Limbs)
    IN  RoundNearestEven(d.q, d.r # 0)

(***************************************************************************)
(* values_match and exact_match_score on floats.  order: the sequence in   *)
(* which iterating a set of keys yields them (a set has no order of its    *)
(* own: CPython's depends on the string hashes and on the insertions).     *)
(***************************************************************************)
RECURSIVE ValuesMatchFloat(_, _, _)
RECURSIVE ExactMatchScoreFloat(_, _, _)
RECURSIVE PrefixSumFloat(_, _, _, _)
RECURSIVE KeySumFloat(_, _, _, _)

\* total_score over range(n), in index order
PrefixSumFloat(e, a, n, order) ==
    IF n = 0 THEN Float0
    ELSE FloatAdd(PrefixSumFloat(e, a, n - 1, order),
                  ValuesMatchFloat(e[n], a[n], order))

ListScoreFloat(e, a, order) ==
    IF Len(e) = 0 /\ Len(a) = 0 THEN Float1
    ELSE IF Len(e) # Len(a)
         THEN LET max_len == Max(Len(e), Len(a))
                  min_len == Min(Len(e), Len(a))
              IN  IF min_len = 0 THEN Float0
                  ELSE FloatDiv(PrefixSumFloat(e, a, min_len, order), max_len)
         ELSE FloatDiv(PrefixSumFloat(e, a, Len(e), order), Len(e))

ValuesMatchFloat(expected_, actual_, order) ==
    LET e == NormalizeValue(expected_)
        a == NormalizeValue(actual_)
    IN  IF IsNone(e) /\ IsNone(a) THEN Float1
        ELSE IF IsNone(e) \/ IsNone(a) THEN Float0
        ELSE IF IsDict(e) /\ IsDict(a) THEN ExactMatchScoreFloat(e, a, order)
        ELSE IF IsList(e) /\ IsList(a) THEN ListScoreFloat(e.l, a.l, order)
        ELSE IF PyEq(e, a) THEN Float1 ELSE Float0

KeyScoreFloat(e, a, key, order) ==
    LET exp_val == Get(e, key)
        act_val == Get(a, key)
    IN  IF key \notin DOMAIN a.o /\ IsNone(exp_val) THEN Float1
        ELSE IF key \notin DOMAIN e.o /\ ~IsNone(act_val) THEN Float0
        ELSE ValuesMatchFloat(exp_val, act_val, order)

\* total_score after `for key in all_keys` has yielded the keys of `keys`
KeySumFloat(e, a, keys, order) ==
    IF keys = <<>> THEN Float0
    ELSE FloatAdd(KeySumFloat(e, a, SubSeq(keys, 1, Len(keys) - 1), order),
                  KeyScoreFloat(e, a, keys[Len(keys)], order))

ExactMatchScoreFloat(e, a, order) ==
    IF Falsy(e) /\ Falsy(a) THEN Float1
    ELSE IF Falsy(e) \/ Falsy(a) THEN Float0
    ELSE LET all_keys ==
                 SelectSeq(order, LAMBDA k : k \in DOMAIN e.o \cup DOMAIN a.o)
         IN  IF all_keys = <<>> THEN Float1
             ELSE FloatDiv(KeySumFloat(e, a, all_keys, order), Len(all_keys))

(***************************************************************************)
(* The two calls of a swapped pair (specification SpecFloat)               *)
(***************************************************************************)
List123 == VList(<<VNum(1), VNum(2), VNum(3)>>)
List100 == VList(<<VNum(1), VNum(0), VNum(0)>>)
FloatVals == {VNum(1), List123, List100}
FloatKeys == {"a", "b", "c"}
FloatObjects == {VObj(o) : o \in [FloatKeys -> FloatVals]}
FloatValues == FloatObjects \cup FloatVals \cup {VNull}

KeyOrders ==
    { o \in [1..Cardinality(FloatKeys) -> FloatKeys] :
        \A i, j \in DOMAIN o : i # j => o[i] # o[j] }

InitFloat ==
    /\ pc = "start"
    /\ expected \in FloatValues
    /\ actual \in FloatValues
    /\ normalized = VNull
    /\ score = R0
    /\ keyOrder \in KeyOrders
    /\ swappedOrder \in KeyOrders
    /\ floatScore = NoResult
    /\ swappedScore = NoResult
    /\ test = IdleTest
    /\ actualTool = None
    /\ client = IdleClient
    /\ response = Raise("ReadTimeout")
    /\ scorer = IdleScorer
    /\ judge = NoJudge
    /\ verdict = NoVerdict
    /\ argResult = NoResult
    /\ outcome = NoResult
    /\ judgeCalls = 0
    /\ IdleBatch /\ IdleRead /\ IdleSchema /\ IdleUsage /\ IdleAgent

CallValuesMatchFloat ==
    /\ pc = "start"
    /\ floatScore' = Return(ValuesMatchFloat(expected, actual, keyOrder))
    /\ pc' = "values_match"
    /\ UNCHANGED <<scoreVars, keyOrder, swappedOrder, swappedScore>>
    /\ UNCHANGED <<runVars, batchVars, readVars, schemaVars, usageVars,
                   agentVars>>

CallValuesMatchSwapped ==
    /\ pc = "values_match"
    /\ swappedScore' = Return(ValuesMatchFloat(actual, expected, swappedOrder))
    /\ pc' = "values_match_swapped"
    /\ UNCHANGED <<scoreVars, keyOrder, swappedOrder, floatScore>>
    /\ UNCHANGED <<runVars, batchVars, readVars, schemaVars, usageVars,
                   agentVars>>

CallExactMatchScoreFloat ==
    /\ pc = "start"
    /\ IsDict(expected) /\ IsDict(actual)
    /\ floatScore' = Return(ExactMatchScoreFloat(expected, actual, keyOrder))
    /\ pc' = "exact_match_score"
    /\ UNCHANGED <<scoreVars, keyOrder, swappedOrder, swappedScore>>
    /\ UNCHANGED <<runVars, batchVars, readVars, schemaVars, usageVars,
                   agentVars>>

CallExactMatchScoreSwapped ==
    /\ pc = "exact_match_score"
    /\ swappedScore' =
           Return(ExactMatchScoreFloat(actual, expected, swappedOrder))
    /\ pc' = "exact_match_score_swapped"
    /\ UNCHANGED <<scoreVars, keyOrder, swappedOrder, floatScore>>
    /\ UNCHANGED <<runVars, batchVars, readVars, schemaVars, usageVars,
                   agentVars>>

NextFloat ==
    \/ CallValuesMatchFloat
    \/ CallValuesMatchSwapped
    \/ CallExactMatchScoreFloat
    \/ CallExactMatchScoreSwapped

SpecFloat == InitFloat /\ [][NextFloat]_vars

BothScored == pc \in {"values_match_swapped", "exact_match_score_swapped"}

\* C27: swapping the expected and the actual side never changes the
\* score: exact_match_score(e, a) = exact_match_score(a, e) and
\* values_match(u, v) = values_match(v, u).
C27_ScoreSymmetric == BothScored => floatScore.value = swappedScore.value

(***************************************************************************)
(* The parameters of a tool after strip_metadata (specification            *)
(* SpecSchema)                                                             *)
(***************************************************************************)
IsObjectNode(n) == "properties" \in DOMAIN n.o
PropertyNames(n) == DOMAIN n.o["properties"].o
RequiredNames(n) ==
    IF "required" \in DOMAIN n.o
    THEN {n.o["required"].l[i].s[1] : i \in 1..Len(n.o["required"].l)}
    ELSE {}

\* C28: with strip_metadata the output's object has exactly the property
\* names of the input's object, parameters named "title" or "description"
\* included, and every name an object lists as required is one of its
\* properties.
C28_StripKeepsParameters ==
    Simplified /\ strip /\ IsObjectNode(rootSchema) =>
        /\ IsObjectNode(simplified.value)
        /\ PropertyNames(simplified.value) = PropertyNames(rootSchema)
        /\ \A n \in Nodes(simplified.value) :
              IsObjectNode(n) => RequiredNames(n) \subseteq PropertyNames(n)

(***************************************************************************)
(* agent.py: run_agent                                                     *)
(*                                                                         *)
(* A tool call of an assistant message is [id, name, arguments, body]:     *)
(* arguments says what the string function.arguments holds ("fields": a    *)
(* JSON object with the tool's required fields, "incomplete": a JSON       *)
(* object without them, "not_object": another JSON value, "undecodable":   *)
(* no JSON), body what the tool's body finds when it runs.                 *)
(***************************************************************************)
ToolFuncs == {"list_dir", "read_file", "grep"}

\* lines 98-101: json.loads(tool_args_str), or {} when that fails
ToolArgs(tc) ==
    IF tc.arguments = "undecodable" THEN "empty_object" ELSE tc.arguments

\* lines 107-115: the result dict of one tool call
ToolResult(tc) ==
    IF tc.name \in ToolFuncs
    THEN CASE ToolArgs(tc) = "fields" ->
                  IF tc.body = "found" THEN [error |-> None]
                  ELSE [error |-> Some("Not found")]
           [] ToolArgs(tc) = "not_object" -> [error |-> Some("TypeError")]
           [] OTHER -> [error |-> Some("ValidationError")]
    ELSE [error |-> Some("Unknown tool")]

\* json.dumps(result)
JsonDumps(result) == [text |-> "json", doc |-> result]

\* The bug "a call of an unknown tool is skipped".
ToolMessagesSkipUnknown(tool_calls) ==
    LET known == SelectSeq(tool_calls, LAMBDA tc : tc.name \in ToolFuncs)
    IN  [j \in 1..Len(known) |->
            [role |-> "tool", tool_call_id |-> known[j].id,
             content |-> JsonDumps(ToolResult(known[j]))]]

\* lines 131-135: the tool-role messages of one turn
ToolMessages(tool_calls) ==
    [j \in 1..Len(tool_calls) |->
        [role |-> "tool", tool_call_id |-> tool_calls[j].id,
         content |-> JsonDumps(ToolResult(tool_calls[j]))]]

\* lines 124-128: the entries tool_calls_log gains in one turn
LogEntries(tool_calls) ==
    [j \in 1..Len(tool_calls) |->
        [tool |-> tool_calls[j].name, args |-> ToolArgs(tool_calls[j]),
         result |-> ToolResult(tool_calls[j])]]

\* What the server answers to one call_model: status "error" makes
\* raise_for_status raise; otherwise the JSON has one choice or an empty
\* list of choices, and the choice's message has tool_calls and a content
\* that is a string, null, or absent.
AbsentContent == [given |-> FALSE]
Content(v) == [given |-> TRUE, v |-> v]

\* line 139: msg.get("content", "")
AnswerOf(reply) == IF reply.content.given THEN reply.content.v ELSE Some("")

\* line 141: answer[:500], which a null answer does not support
PrintAnswer(answer) == IF IsSome(answer) THEN Return("printed")
                       ELSE Raise("TypeError")

(***************************************************************************)
(* A run of run_agent (specification SpecAgent)                            *)
(***************************************************************************)
MaxTurns == 3

Call(id, name, arguments, body) ==
    [id |-> id, name |-> name, arguments |-> arguments, body |-> body]

ToolCallLists ==
    { <<Call("call_1", "list_dir", "fields", "found")>>,
      <<Call("call_1", "read_file", "fields", "missing")>>,
      <<Call("call_1", "grep", "undecodable", "found")>>,
      <<Call("call_1", "delete_file", "fields", "found")>>,
      <<Call("call_1", "read_file", "not_object", "found"),
        Call("call_2", "list_dir", "incomplete", "found")>>,
      <<Call("call_1", "grep", "undecodable", "found"),
        Call("call_2", "delete_file", "fields", "found")>>,
      <<Call("call_1", "list_dir", "fields", "found"),
        Call("call_2", "read_file", "fields", "missing")>> }

Replies ==
    { [status |-> "ok", choices |-> TRUE, tool_calls |-> calls,
       content |-> Content(None)] : calls \in ToolCallLists }
    \cup
    { [status |-> "ok", choices |-> TRUE, tool_calls |-> <<>>,
       content |-> c] :
        c \in {Content(Some("3 files")), Content(None), AbsentContent} }
    \cup
    { [status |-> "ok", choices |-> FALSE, tool_calls |-> <<>>,
       content |-> AbsentContent],
      [status |-> "error", choices |-> FALSE, tool_calls |-> <<>>,
       content |-> AbsentContent] }

InitAgent ==
    /\ pc = "start"
    /\ expected = VNull
    /\ actual = VNull
    /\ normalized = VNull
    /\ score = R0
    /\ test = IdleTest
    /\ actualTool = None
    /\ client = IdleClient
    /\ response = Raise("ReadTimeout")
    /\ scorer = IdleScorer
    /\ judge = NoJudge
    /\ verdict = NoVerdict
    /\ argResult = NoResult
    /\ outcome = NoResult
    /\ judgeCalls = 0
    /\ IdleBatch /\ IdleRead /\ IdleSchema /\ IdleUsage /\ IdleFloat
    /\ maxTurns \in -1..MaxTurns
    /\ verbose \in BOOLEAN
    /\ replies \in [1..Max(maxTurns, 0) -> Replies]
    /\ modelCalls = 0
    /\ messages = <<>>
    /\ toolCallsLog = <<>>
    /\ agentResult = NoResult

\* lines 68-73
CallRunAgent ==
    /\ pc = "start"
    /\ pc' = "run_agent"
    /\ messages' = <<[role |-> "system"], [role |-> "user"]>>
    /\ toolCallsLog' = <<>>
    /\ UNCHANGED <<maxTurns, verbose, replies, modelCalls, agentResult>>
    /\ UNCHANGED <<scoreVars, runVars, batchVars, readVars, schemaVars,
                   usageVars, floatVars>>

\* lines 75-149: one iteration of the loop
AgentTurn ==
    /\ pc = "run_agent"
    /\ modelCalls < maxTurns
    /\ LET reply == replies[modelCalls + 1]
           ends(result) ==
               /\ agentResult' = result
               /\ pc' = "done"
               /\ UNCHANGED <<messages, toolCallsLog>>
       IN  /\ modelCalls' = modelCalls + 1
           /\ IF reply.status = "error" THEN ends(Raise("HTTPStatusError"))
              ELSE IF ~reply.choices THEN ends(Raise("IndexError"))
              ELSE IF reply.tool_calls # <<>>
              THEN /\ messages' =
                          messages
                          \o <<[role |-> "assistant",
                                tool_calls |-> reply.tool_calls]>>
                          \o ToolMessages(reply.tool_calls)
                   /\ toolCallsLog' =
                          toolCallsLog \o LogEntries(reply.tool_calls)
                   /\ UNCHANGED <<pc, agentResult>>
              ELSE IF verbose /\ PrintAnswer(AnswerOf(reply)).kind = "raise"
              THEN ends(Raise("TypeError"))
              ELSE ends(Return([answer |-> AnswerOf(reply),
                                turns |-> modelCalls + 1,
                                tool_calls |-> toolCallsLog,
                                success |-> TRUE]))
    /\ UNCHANGED <<maxTurns, verbose, replies>>
    /\ UNCHANGED <<scoreVars, runVars, batchVars, readVars, schemaVars,
                   usageVars, floatVars>>

\* lines 151-158: the loop ran out of turns
AgentGivesUp ==
    /\ pc = "run_agent"
    /\ modelCalls >= maxTurns
    /\ agentResult' = Return([answer |-> None, turns |-> maxTurns,
                              tool_calls |-> toolCallsLog,
                              success |-> FALSE])
    /\ pc' = "done"
    /\ UNCHANGED <<maxTurns, verbose, replies, modelCalls, messages,
                   toolCallsLog>>
    /\ UNCHANGED <<scoreVars, runVars, batchVars, readVars, schemaVars,
                   usageVars, floatVars>>

NextAgent == CallRunAgent \/ AgentTurn \/ AgentGivesUp
SpecAgent == InitAgent /\ [][NextAgent]_vars

(***************************************************************************)
(* Properties of the agent loop (specification SpecAgent)                  *)
(***************************************************************************)
AgentDone == pc = "done"
HasToolCalls(reply) == reply.choices /\ reply.tool_calls # <<>>
Answered(i) == replies[i].status = "ok"
Answering == {k \in 1..Len(replies) : ~HasToolCalls(replies[k])}
FirstAnswering == CHOOSE k \in Answering : \A j \in Answering : k <= j

\* C29: run_agent calls the model at most max_turns times and then
\* returns: with success = true, turns = k and the content of the k-th
\* response as answer when that response is the first one without tool
\* calls, and with success = false, answer = null, turns = max_turns when
\* all max_turns responses carry tool calls.
C29_AgentBounded ==
    /\ modelCalls <= Max(maxTurns, 0)
    /\ AgentDone /\ (\A i \in 1..modelCalls : Answered(i)) =>
          /\ agentResult.kind = "return"
          /\ IF Answering # {}
             THEN /\ agentResult.value.success
                  /\ agentResult.value.turns = FirstAnswering
                  /\ agentResult.value.answer
                        = AnswerOf(replies[FirstAnswering])
             ELSE /\ ~agentResult.value.success
                  /\ agentResult.value.answer = None
                  /\ agentResult.value.turns = maxTurns

\* the tool-role messages of a history
ToolMessagesIn(msgs) == SelectSeq(msgs, LAMBDA m : m.role = "tool")

\* the assistant message at position i is followed by one tool message
\* per tool call, in the order of the calls and with their ids, and by
\* no further tool message
FollowedByToolMessages(msgs, i) ==
    LET calls == msgs[i].tool_calls
        k == Len(calls)
    IN  /\ i + k <= Len(msgs)
        /\ \A j \in 1..k :
              /\ msgs[i + j].role = "tool"
              /\ msgs[i + j].tool_call_id = calls[j].id
              /\ (\/ calls[j].arguments = "undecodable"
                  \/ calls[j].name \notin ToolFuncs
                  \/ calls[j].body # "found") =>
                     IsSome(msgs[i + j].content.doc.error)
        /\ i + k < Len(msgs) => msgs[i + k + 1].role # "tool"

\* the tool calls of all assistant messages, in order
RECURSIVE CallsOf(_)
CallsOf(msgs) ==
    IF msgs = <<>> THEN <<>>
    ELSE (IF Head(msgs).role = "assistant" THEN Head(msgs).tool_calls
          ELSE <<>>) \o CallsOf(Tail(msgs))

\* C30: whenever run_agent is about to call the model or has ended, every
\* assistant message of the history with k tool calls is followed by
\* exactly k tool messages, in call order and with the calls' ids; calls
\* with undecodable arguments, of an unknown tool or with a failing body
\* have a tool message with an error result; tool_calls_log has one entry
\* per call; and a turn with tool calls does not end the loop.
C30_HistoryWellFormed ==
    pc \in {"run_agent", "done"} =>
        /\ \A i \in 1..Len(messages) :
              messages[i].role = "assistant" => FollowedByToolMessages(messages, i)
        /\ Len(ToolMessagesIn(messages)) = Len(CallsOf(messages))
        /\ Len(toolCallsLog) = Len(CallsOf(messages))
        /\ \A j \in 1..Len(toolCallsLog) :
              toolCallsLog[j].tool = CallsOf(messages)[j].name
        /\ \A i \in 1..modelCalls :
              HasToolCalls(replies[i]) /\ Answered(i) =>
                  /\ \E m \in 1..Len(messages) :
                        /\ messages[m].role = "assistant"
                        /\ messages[m].tool_calls = replies[i].tool_calls
                  /\ i = modelCalls /\ pc = "done" =>
                        /\ agentResult.kind = "return"
                        /\ ~agentResult.value.success
                        /\ modelCalls = maxTurns

\* two turns with tool calls, among them undecodable arguments, an
\* unknown tool and a failing body, and the loop still running
C30_Witness ==
    /\ pc = "run_agent"
    /\ modelCalls = 2
    /\ maxTurns = 3
    /\ Len(messages) = 8
    /\ messages[3].role = "assistant"
    /\ messages[3].tool_calls[1].arguments = "undecodable"
    /\ messages[3].tool_calls[2].name = "delete_file"
    /\ messages[5].tool_call_id = "call_2"
    /\ messages[5].content.doc.error = Some("Unknown tool")
    /\ messages[8].content.doc.error = Some("Not found")
    /\ Len(toolCallsLog) = 4
    /\ agentResult = NoResult

=============================================================================
